---- MODULE Spec2Model ----
(***************************************************************************)
(* Order processing and inventory consistency of the mts backend:          *)
(* the Product stock ledger, the Order aggregate and its status machine,   *)
(* the three storages (relational rows behind a ttlcache of list results)  *)
(* and the order application service (CreateOrder, CancelOrder,            *)
(* UpdateOrder).                                                           *)
(*                                                                         *)
(* Identifiers (uuid.UUID) are naturals, Nil is uuid.Nil.  A row's id is   *)
(* its position in the table, so "ORDER BY created_at DESC" is descending  *)
(* id.  Strings are sequences of characters.  Timestamps other than the    *)
(* creation order are not part of the state.                               *)
(***************************************************************************)
EXTENDS Integers, Sequences, FiniteSets, TLC

VARIABLES
    users,      \* table users: the set of persisted user ids
    products,   \* table products: sequence of rows [desc, tags, q], id = index
    orders,     \* tables orders + order_items: sequence of rows
                \*   [userId, status, items], id = index
    ucache,     \* userStorage.cache:    cache key -> list of user ids
    pcache,     \* productStorage.cache: cache key -> reference into plists
    ocache,     \* orderStorage.cache:   cache key -> reference into olists
    plists,     \* heap of []*domain.Product results: reference -> list of
                \*   Product objects (shared by the cache and by every caller
                \*   that was handed the list)
    olists,     \* heap of []*domain.Order results
    proc,       \* in-flight handlers of the interleaved specification
    last,       \* the last completed application-service call and its result
    agg         \* an Order aggregate and a Product aggregate in memory, with
                \*   the last method called on them

vars == <<users, products, orders, ucache, pcache, ocache, plists, olists,
          proc, last, agg>>

-----------------------------------------------------------------------------
(* Bounds of the model *)

MaxQty == 1         \* largest quantity one line of a request carries
MaxItems == 2       \* most lines in one CreateOrderRequest
MaxOrders == 1      \* most orders persisted by the sequential specifications
MaxProducts == 2    \* products persisted
MaxInit == 2        \* largest quantity a product starts with
MaxStock == 3       \* a call that would raise a quantity above it is not taken
MaxCache == 1       \* a call that would leave a cache larger is not taken
                    \*   (one entry more where orders are only placed)
NumProcs == 2       \* handlers in flight in the interleaved specification
MaxShort == 2       \* most products out of stock at the start of a large catalogue

Nil == 0            \* uuid.Nil

-----------------------------------------------------------------------------
(* Error kinds: domain errors, "ok" for a nil error *)

Ok == "ok"
ErrUserValidation == "UserValidation"
ErrUserNotFound == "UserNotFound"
ErrProductValidation == "ProductValidation"
ErrProductNotFound == "ProductNotFound"
ErrOrderValidation == "OrderValidation"
ErrOrderNotFound == "OrderNotFound"
ErrInsufficientStock == "InsufficientStock"
ErrInvalidQuantity == "InvalidQuantity"
\* an error of the database driver (pgx), of no domain kind
ErrDatabase == "database"

OrderStatusPending == "pending"
OrderStatusConfirmed == "confirmed"
OrderStatusCancelled == "cancelled"
OrderStatusCompleted == "completed"

Statuses == {OrderStatusPending, OrderStatusConfirmed, OrderStatusCancelled,
             OrderStatusCompleted}

-----------------------------------------------------------------------------
(* Helpers on sequences and finite functions *)

Range(s) == {s[i] : i \in DOMAIN s}

RECURSIVE SumSeq(_)
SumSeq(s) == IF s = <<>> THEN 0 ELSE Head(s) + SumSeq(Tail(s))

RECURSIVE SelectSeqBy(_, _)
\* the subsequence of s whose elements are in the set keep
SelectSeqBy(s, keep) ==
    IF s = <<>> THEN <<>>
    ELSE IF Head(s) \in keep THEN <<Head(s)>> \o SelectSeqBy(Tail(s), keep)
         ELSE SelectSeqBy(Tail(s), keep)

\* every ordering (without repetition) of the finite set S
Orderings(S) ==
    {f \in [1..Cardinality(S) -> S] : \A i, j \in DOMAIN f : i # j => f[i] # f[j]}

RECURSIVE AscSeq(_)
\* a finite set of naturals as a sequence, smallest first
AscSeq(S) ==
    IF S = {} THEN <<>>
    ELSE LET m == CHOOSE x \in S : \A y \in S : x <= y
         IN  <<m>> \o AscSeq(S \ {m})

\* the rotations of the ascending order of S: each element comes first in one
Rotations(S) ==
    {[i \in 1..Cardinality(S) |->
         AscSeq(S)[((i + k - 2) % Cardinality(S)) + 1]] : k \in 1..Cardinality(S)}

\* strings.TrimSpace on a sequence of characters
RECURSIVE TrimLeft(_)
TrimLeft(s) == IF s # <<>> /\ Head(s) = " " THEN TrimLeft(Tail(s)) ELSE s

RECURSIVE TrimRight(_)
TrimRight(s) ==
    IF s # <<>> /\ s[Len(s)] = " " THEN TrimRight(SubSeq(s, 1, Len(s) - 1)) ELSE s

TrimSpace(s) == TrimRight(TrimLeft(s))

-----------------------------------------------------------------------------
(* domain.Product: the stock ledger *)

\* Product.IsAvailable
IsAvailable(p) == p.q > 0

\* a ReserveQuantity that does not look at the stock
ReserveQuantityUnchecked(p, quantity) ==
    IF quantity <= 0 THEN [err |-> ErrInvalidQuantity, p |-> p]
    ELSE [err |-> Ok, p |-> [p EXCEPT !.q = @ - quantity]]

\* Product.ReserveQuantity: [err, p] (the receiver after the call)
ReserveQuantity(p, quantity) ==
    IF quantity <= 0 THEN [err |-> ErrInvalidQuantity, p |-> p]
    ELSE IF p.q < quantity THEN [err |-> ErrInsufficientStock, p |-> p]
    ELSE [err |-> Ok, p |-> [p EXCEPT !.q = @ - quantity]]

\* a RestoreQuantity that adds whatever it is given
RestoreQuantityUnchecked(p, quantity) ==
    [err |-> Ok, p |-> [p EXCEPT !.q = @ + quantity]]

\* a RestoreQuantity that adds the quantity twice
RestoreQuantityTwice(p, quantity) ==
    IF quantity <= 0 THEN [err |-> ErrInvalidQuantity, p |-> p]
    ELSE [err |-> Ok, p |-> [p EXCEPT !.q = @ + 2 * quantity]]

\* Product.RestoreQuantity
RestoreQuantity(p, quantity) ==
    IF quantity <= 0 THEN [err |-> ErrInvalidQuantity, p |-> p]
    ELSE [err |-> Ok, p |-> [p EXCEPT !.q = @ + quantity]]

\* the "Clean up tags" loop of Product.Validate
RECURSIVE CleanTags(_)
CleanTags(tags) ==
    IF tags = <<>> THEN <<>>
    ELSE IF TrimSpace(Head(tags)) # <<>>
         THEN <<TrimSpace(Head(tags))>> \o CleanTags(Tail(tags))
         ELSE CleanTags(Tail(tags))

\* Product.Validate: [err, p]; the id is assigned by the caller (uuid.New)
ProductValidate(p) ==
    IF TrimSpace(p.desc) = <<>> THEN [err |-> ErrProductValidation, p |-> p]
    ELSE IF p.q < 0 THEN [err |-> ErrProductValidation, p |-> p]
    ELSE [err |-> Ok, p |-> [p EXCEPT !.tags = CleanTags(@)]]

\* CreateProductRequest.Validate
CreateProductRequestValidate(r) ==
    IF TrimSpace(r.desc) = <<>> THEN ErrProductValidation
    ELSE IF r.q < 0 THEN ErrProductValidation
    ELSE Ok

\* CreateProductRequest.ToDomain: [err, p]
CreateProductRequestToDomain(r) ==
    IF CreateProductRequestValidate(r) # Ok
    THEN [err |-> CreateProductRequestValidate(r), p |-> r]
    ELSE [err |-> Ok,
          p |-> [id |-> Nil, desc |-> TrimSpace(r.desc), tags |-> r.tags, q |-> r.q]]

\* An optional field (a pointer that may be nil): <<>> is nil, <<v>> points to v
None == <<>>
Some(v) == <<v>>

\* UpdateProductRequest.Validate, on the values the pointers hold when read
UpdateProductRequestValidate(r) ==
    IF r.id = Nil THEN ErrProductValidation
    ELSE IF r.desc # None /\ TrimSpace(r.desc[1]) = <<>> THEN ErrProductValidation
    ELSE IF r.q # None /\ r.q[1] < 0 THEN ErrProductValidation
    ELSE Ok

-----------------------------------------------------------------------------
(* domain.Order: the aggregate and its status machine *)

\* a CanBeCancelled that lets every order be cancelled
CanAlwaysBeCancelled(o) == TRUE

\* Order.CanBeCancelled
CanBeCancelled(o) ==
    o.status = OrderStatusPending \/ o.status = OrderStatusConfirmed

\* Order.Cancel: [err, o]
Cancel(o) ==
    IF ~CanBeCancelled(o) THEN [err |-> ErrOrderValidation, o |-> o]
    ELSE [err |-> Ok, o |-> [o EXCEPT !.status = OrderStatusCancelled]]

\* a Confirm that does not look at the status
ConfirmFromAny(o) == [err |-> Ok, o |-> [o EXCEPT !.status = OrderStatusConfirmed]]

\* Order.Confirm
Confirm(o) ==
    IF o.status # OrderStatusPending THEN [err |-> ErrOrderValidation, o |-> o]
    ELSE [err |-> Ok, o |-> [o EXCEPT !.status = OrderStatusConfirmed]]

\* Order.Complete
Complete(o) ==
    IF o.status # OrderStatusConfirmed THEN [err |-> ErrOrderValidation, o |-> o]
    ELSE [err |-> Ok, o |-> [o EXCEPT !.status = OrderStatusCompleted]]

\* Order.TotalQuantity
TotalQuantity(o) == SumSeq([i \in DOMAIN o.items |-> o.items[i].quantity])

\* an OrderItem.Validate that accepts every item
OrderItemUnchecked(item, orderId) == Ok

\* OrderItem.Validate, once Order.Validate has set item.OrderId = orderId
OrderItemValidate(item, orderId) ==
    IF orderId = Nil THEN ErrOrderValidation
    ELSE IF item.productId = Nil THEN ErrOrderValidation
    ELSE IF item.quantity <= 0 THEN ErrOrderValidation
    ELSE IF item.snapshot.desc = <<>> THEN ErrOrderValidation
    ELSE Ok

\* Order.Validate: [err, o]; newId is the uuid.New() taken when o.Id is Nil
OrderValidate(o, newId) ==
    LET id == IF o.id = Nil THEN newId ELSE o.id
        st == IF o.status = "" THEN OrderStatusPending ELSE o.status
        o1 == [o EXCEPT !.id = id]
        o2 == [o1 EXCEPT !.status = st]
        bad == {i \in DOMAIN o.items : OrderItemValidate(o.items[i], id) # Ok}
    IN  IF o.userId = Nil THEN [err |-> ErrOrderValidation, o |-> o1]
        ELSE IF Len(o.items) = 0 THEN [err |-> ErrOrderValidation, o |-> o2]
        ELSE IF bad # {} THEN [err |-> ErrOrderValidation, o |-> o2]
        ELSE [err |-> Ok, o |-> o2]

\* CreateOrderItemRequest.Validate
CreateOrderItemRequestValidate(item) ==
    IF item.productId = Nil THEN ErrOrderValidation
    ELSE IF item.quantity <= 0 THEN ErrOrderValidation
    ELSE Ok

\* a Validate that accepts every request
CreateOrderRequestUnchecked(r) == Ok

\* CreateOrderRequest.Validate
CreateOrderRequestValidate(r) ==
    IF r.userId = Nil THEN ErrOrderValidation
    ELSE IF Len(r.items) = 0 THEN ErrOrderValidation
    ELSE IF \E i \in DOMAIN r.items : CreateOrderItemRequestValidate(r.items[i]) # Ok
         THEN ErrOrderValidation
    ELSE Ok

\* a Validate that accepts every request
UpdateOrderRequestUnchecked(r) == Ok

\* UpdateOrderRequest.Validate
UpdateOrderRequestValidate(r) ==
    IF r.id = Nil THEN ErrOrderValidation
    ELSE IF r.status \notin Statuses THEN ErrOrderValidation
    ELSE Ok

-----------------------------------------------------------------------------
(* List requests: normalisation and cache keys *)

DefaultLimit == 10      \* Validate: Limit <= 0 becomes 10
LimitCap == 100         \* Validate: Limit > 100 becomes 100
UuidLen == 16           \* bytes of a uuid.UUID

\* a Validate that leaves a negative offset as it is
RequestValidateAnyOffset(r) ==
    [r EXCEPT !.limit = IF @ <= 0 THEN DefaultLimit
                        ELSE IF @ > LimitCap THEN LimitCap ELSE @]

\* a Validate that leaves a limit above the cap as it is
RequestValidateNoCap(r) ==
    [r EXCEPT !.limit = IF @ <= 0 THEN DefaultLimit ELSE @,
              !.offset = IF @ < 0 THEN 0 ELSE @]

\* GetUsersRequest.Validate, GetProductsRequest.Validate, GetOrdersRequest.Validate
\* (the three are the same code on Limit and Offset)
RequestValidate(r) ==
    LET l1 == IF r.limit <= 0 THEN DefaultLimit ELSE r.limit
        l2 == IF l1 > LimitCap THEN LimitCap ELSE l1
        o1 == IF r.offset < 0 THEN 0 ELSE r.offset
    IN  [r EXCEPT !.limit = l2, !.offset = o1]

\* binary.BigEndian.AppendUint32(buf, uint32(n)): the four bytes appended, the
\* low 32 bits of n in two's complement, most significant byte first
Uint32Bytes(n) ==
    <<(n \div 16777216) % 256, (n \div 65536) % 256, (n \div 256) % 256, n % 256>>

\* id[:] of a uuid.UUID: sixteen bytes
UuidBytes(id) == [i \in 1..UuidLen |-> IF i = UuidLen THEN id % 256 ELSE 0]

\* the byte of a character of the model's alphabet
ByteOf(c) ==
    CASE c = " " -> 32
      [] c = "a" -> 97
      [] c = "b" -> 98
      [] c = "c" -> 99
      [] OTHER -> 63

\* []byte(s) of a string
StringBytes(s) == [i \in DOMAIN s |-> ByteOf(s[i])]

RECURSIVE ConcatAll(_)
\* the concatenation of a sequence of sequences
ConcatAll(ss) == IF ss = <<>> THEN <<>> ELSE Head(ss) \o ConcatAll(Tail(ss))

\* the "ids" block of every CacheKey: a count, then each id's bytes
IdsBytes(ids) ==
    Uint32Bytes(Len(ids)) \o ConcatAll([i \in DOMAIN ids |-> UuidBytes(ids[i])])

\* the "tags" / "statuses" block: a count, then each string's bytes
StringsBytes(strs) ==
    Uint32Bytes(Len(strs)) \o ConcatAll([i \in DOMAIN strs |-> StringBytes(strs[i])])

\* the "pagination" block
PaginationBytes(r) == Uint32Bytes(r.limit) \o Uint32Bytes(r.offset)

\* GetUsersRequest.CacheKey: the buffer handed to sha256.Sum256.  The digest is
\* taken to be collision free, so the buffer stands for the key.
UsersCacheKey(r) == IdsBytes(r.ids) \o PaginationBytes(r)

\* GetProductsRequest.CacheKey; available is <<>> (nil), <<TRUE>> or <<FALSE>>
ProductsCacheKey(r) ==
    IdsBytes(r.ids) \o StringsBytes(r.tags)
      \o (IF r.available = None THEN <<2>>
          ELSE IF r.available[1] THEN <<1>> ELSE <<0>>)
      \o PaginationBytes(r)

\* an order status as the string the code appends to the buffer
StatusString(st) ==
    CASE st = OrderStatusPending -> <<"p", "e", "n", "d", "i", "n", "g">>
      [] st = OrderStatusConfirmed -> <<"c", "o", "n", "f", "i", "r", "m", "e", "d">>
      [] st = OrderStatusCancelled -> <<"c", "a", "n", "c", "e", "l", "l", "e", "d">>
      [] st = OrderStatusCompleted -> <<"c", "o", "m", "p", "l", "e", "t", "e", "d">>
      [] OTHER -> <<>>

\* GetOrdersRequest.CacheKey
OrdersCacheKey(r) ==
    IdsBytes(r.ids) \o IdsBytes(r.userIds)
      \o StringsBytes([i \in DOMAIN r.statuses |-> StatusString(r.statuses[i])])
      \o PaginationBytes(r)

\* The requests with the zero value in every field not given
UsersRequest(ids, limit) == [ids |-> ids, limit |-> limit, offset |-> 0]
ProductsRequest(ids, limit) ==
    [ids |-> ids, tags |-> <<>>, available |-> None, limit |-> limit, offset |-> 0]
OrdersRequest(ids, limit) ==
    [ids |-> ids, userIds |-> <<>>, statuses |-> <<>>, limit |-> limit, offset |-> 0]

-----------------------------------------------------------------------------
(* ttlcache.Cache and the heap of list results *)

EmptyCache == <<>>

\* Cache.Get(key) # nil
CacheHas(cache, key) == key \in DOMAIN cache

\* Cache.Set(key, value, DefaultTTL)
CacheSet(cache, key, value) ==
    [k \in (DOMAIN cache) \cup {key} |-> IF k = key THEN value ELSE cache[k]]

\* a DeleteAll that deletes nothing
CacheDeleteNone(cache) == cache

\* a DeleteAll that leaves one of the entries
CacheDeleteButOne(cache) ==
    IF DOMAIN cache = {} THEN cache
    ELSE [k \in {CHOOSE k \in DOMAIN cache : TRUE} |-> cache[k]]

\* Cache.DeleteAll()
CacheDeleteAll(cache) == EmptyCache

\* a reference not in use: the address of a freshly allocated slice
NewRef(lists) == CHOOSE r \in 1..(Cardinality(DOMAIN lists) + 1) : r \notin DOMAIN lists

\* the heap with a new list at reference ref
HeapPut(lists, ref, objs) ==
    [r \in (DOMAIN lists) \cup {ref} |-> IF r = ref THEN objs ELSE lists[r]]

\* garbage collection: only the lists in live stay
HeapKeep(lists, live) == [r \in (DOMAIN lists) \cap live |-> lists[r]]

-----------------------------------------------------------------------------
(* SQL queries of the storages *)

RECURSIVE DescSeq(_)
\* a finite set of naturals as a sequence, largest first
DescSeq(S) ==
    IF S = {} THEN <<>>
    ELSE LET m == CHOOSE x \in S : \A y \in S : y <= x
         IN  <<m>> \o DescSeq(S \ {m})

\* LIMIT limit OFFSET offset on a sequence of rows
Page(s, limit, offset) ==
    IF offset >= Len(s) THEN <<>>
    ELSE SubSeq(s, offset + 1, IF offset + limit > Len(s) THEN Len(s) ELSE offset + limit)

\* substring search: the SQL pattern %needle%
Contains(hay, needle) ==
    \E i \in 0..Len(hay) :
        /\ i + Len(needle) <= Len(hay)
        /\ SubSeq(hay, i + 1, i + Len(needle)) = needle

RECURSIVE JoinQuoted(_)
\* "t1","t2",... : the elements of a JSON array of strings
JoinQuoted(tags) ==
    IF tags = <<>> THEN <<>>
    ELSE <<"\"">> \o Head(tags) \o <<"\"">>
           \o (IF Len(tags) > 1 THEN <<",">> ELSE <<>>) \o JoinQuoted(Tail(tags))

\* toProductDto: the tags column, json.Marshal(tags) or "" for no tags
TagsColumn(tags) ==
    IF Len(tags) > 0 THEN <<"[">> \o JoinQuoted(tags) \o <<"]">> ELSE <<>>

\* productDto.toDomain on row id of the table: the Product object read
ProductOfRow(rows, id) ==
    [id |-> id, desc |-> rows[id].desc, tags |-> rows[id].tags, q |-> rows[id].q]

\* the SELECT of productStorage.Products for a normalised request r
QueryProducts(rows, r) ==
    LET match == {id \in DOMAIN rows :
                    /\ Len(r.ids) > 0 => id \in Range(r.ids)
                    /\ \A i \in DOMAIN r.tags :
                           Contains(TagsColumn(rows[id].tags), r.tags[i])
                    /\ r.available # None =>
                           IF r.available[1] THEN rows[id].q > 0 ELSE rows[id].q = 0}
        ids == Page(DescSeq(match), r.limit, r.offset)
    IN  [i \in DOMAIN ids |-> ProductOfRow(rows, ids[i])]

\* an UPDATE without its WHERE clause: every row is written
ExecUpdateProductEveryRow(rows, r) ==
    [id \in DOMAIN rows |->
        [desc |-> IF r.desc # None THEN TrimSpace(r.desc[1]) ELSE rows[id].desc,
         q    |-> IF r.q # None THEN r.q[1] ELSE rows[id].q,
         tags |-> IF Len(r.tags) > 0 THEN r.tags ELSE rows[id].tags]]

\* the UPDATE of productStorage.UpdateProduct; r.q and r.desc are the values
\* read through the request's pointers when the statement is built
ExecUpdateProduct(rows, r) ==
    [id \in DOMAIN rows |->
        IF id # r.id THEN rows[id]
        ELSE [desc |-> IF r.desc # None THEN TrimSpace(r.desc[1]) ELSE rows[id].desc,
              q    |-> IF r.q # None THEN r.q[1] ELSE rows[id].q,
              tags |-> IF Len(r.tags) > 0 THEN r.tags ELSE rows[id].tags]]

\* the INSERT of productStorage.CreateProduct
ExecInsertProduct(rows, p) ==
    Append(rows, [desc |-> p.desc, tags |-> p.tags, q |-> p.q])

\* orderDto.toDomain and loadOrderItems on row id: the Order object read
OrderOfRow(rows, id) ==
    [id |-> id, userId |-> rows[id].userId, status |-> rows[id].status,
     items |-> rows[id].items]

\* the SELECTs of orderStorage.Orders and loadOrderItems for a normalised r
QueryOrders(rows, r) ==
    LET match == {id \in DOMAIN rows :
                    /\ Len(r.ids) > 0 => id \in Range(r.ids)
                    /\ Len(r.userIds) > 0 => rows[id].userId \in Range(r.userIds)
                    /\ Len(r.statuses) > 0 => rows[id].status \in Range(r.statuses)}
        ids == Page(DescSeq(match), r.limit, r.offset)
    IN  [i \in DOMAIN ids |-> OrderOfRow(rows, ids[i])]

\* the committed transaction of orderStorage.CreateOrder: the order row and
\* every item row
ExecInsertOrder(rows, o) ==
    Append(rows, [userId |-> o.userId, status |-> o.status, items |-> o.items])

\* the order tables when every statement takes effect as soon as it has run:
\* the order row and the item rows of the statements executed
AutoCommitted(rows, o, k, committed) ==
    IF k = 0 THEN rows
    ELSE Append(rows, [userId |-> o.userId, status |-> o.status,
                       items |-> SubSeq(o.items, 1, k - 1)])

\* the order tables once the transaction of orderStorage.CreateOrder has
\* ended: k of its statements (the INSERT of the order row, then one INSERT
\* per item) have run, and it ended by tx.Commit returning nil (committed) or
\* by the deferred tx.Rollback
TxEnd(rows, o, k, committed) ==
    IF committed THEN ExecInsertOrder(rows, [o EXCEPT !.items = SubSeq(@, 1, k - 1)])
    ELSE rows

\* an UPDATE that takes effect on pending orders only
ExecUpdateOrderFromPending(rows, r) ==
    [id \in DOMAIN rows |->
        IF id # r.id \/ rows[id].status # OrderStatusPending THEN rows[id]
        ELSE [rows[id] EXCEPT !.status = r.status]]

\* an UPDATE of the order that also deletes its item rows
ExecUpdateOrderDroppingItems(rows, r) ==
    [id \in DOMAIN rows |->
        IF id # r.id THEN rows[id]
        ELSE [rows[id] EXCEPT !.status = r.status, !.items = <<>>]]

\* the UPDATE of orderStorage.UpdateOrder
ExecUpdateOrder(rows, r) ==
    [id \in DOMAIN rows |->
        IF id # r.id THEN rows[id] ELSE [rows[id] EXCEPT !.status = r.status]]

\* result.RowsAffected() of that UPDATE
RowsAffected(rows, id) == IF id \in DOMAIN rows THEN 1 ELSE 0

\* the SELECT of userStorage.Users for a normalised request r: user ids
QueryUsers(rows, r) ==
    Page(DescSeq({id \in rows : Len(r.ids) > 0 => id \in Range(r.ids)}),
         r.limit, r.offset)

-----------------------------------------------------------------------------------------------------------------------------------------------------
(* The storages, one call run to its end without interruption.  A storage   *)
(* is the record [rows, cache, lists]: its table, its cache and the heap of *)
(* the list results it has handed out.                                      *)

\* F applied to the value of v, v evaluated once
Bind(v, F(_)) == CHOOSE y \in {F(x) : x \in {v}} : TRUE

\* the cache miss of Products / Orders: the list read is stored and returned
StoreList(st, key, ref, list) ==
    [st |-> [rows |-> st.rows,
             cache |-> CacheSet(st.cache, key, ref),
             lists |-> HeapPut(st.lists, ref, list)],
     ref |-> ref]

\* productStorage.Products: [st, ref], ref the list returned
StorageProducts(st, req) ==
    Bind(RequestValidate(req), LAMBDA r :
    Bind(ProductsCacheKey(r), LAMBDA key :
        IF CacheHas(st.cache, key) THEN [st |-> st, ref |-> st.cache[key]]
        ELSE StoreList(st, key, NewRef(st.lists), QueryProducts(st.rows, r))))

\* productStorage.UpdateProduct: [st, err, ref] (ref holds the product returned)
StorageUpdateProduct(st, req) ==
    IF UpdateProductRequestValidate(req) # Ok
    THEN [st |-> [st EXCEPT !.cache = CacheDeleteAll(@)],
          err |-> UpdateProductRequestValidate(req), ref |-> Nil]
    ELSE Bind(StorageProducts([rows |-> ExecUpdateProduct(st.rows, req),
                               cache |-> CacheDeleteAll(st.cache),
                               lists |-> st.lists],
                              ProductsRequest(<<req.id>>, 1)),
              LAMBDA got :
                IF Len(got.st.lists[got.ref]) = 0
                THEN [st |-> got.st, err |-> ErrProductNotFound, ref |-> Nil]
                ELSE [st |-> got.st, err |-> Ok, ref |-> got.ref])

\* productStorage.CreateProduct: [st, err, p]
StorageCreateProduct(st, product) ==
    Bind(ProductValidate(IF product.id = Nil
                         THEN [product EXCEPT !.id = Len(st.rows) + 1]
                         ELSE product),
         LAMBDA v :
           IF v.err # Ok
           THEN [st |-> [st EXCEPT !.cache = CacheDeleteAll(@)],
                 err |-> v.err, p |-> v.p]
           ELSE [st |-> [rows |-> ExecInsertProduct(st.rows, v.p),
                         cache |-> CacheDeleteAll(st.cache),
                         lists |-> st.lists],
                 err |-> Ok, p |-> v.p])

\* orderStorage.Orders: [st, ref]
StorageOrders(st, req) ==
    Bind(RequestValidate(req), LAMBDA r :
    Bind(OrdersCacheKey(r), LAMBDA key :
        IF CacheHas(st.cache, key) THEN [st |-> st, ref |-> st.cache[key]]
        ELSE StoreList(st, key, NewRef(st.lists), QueryOrders(st.rows, r))))

\* orderStorage.CreateOrder: [st, err, o]
StorageCreateOrder(st, order) ==
    Bind(OrderValidate(order, Len(st.rows) + 1), LAMBDA v :
        IF v.err # Ok
        THEN [st |-> [st EXCEPT !.cache = CacheDeleteAll(@)],
              err |-> v.err, o |-> v.o]
        ELSE [st |-> [rows |-> ExecInsertOrder(st.rows, v.o),
                      cache |-> CacheDeleteAll(st.cache),
                      lists |-> st.lists],
              err |-> Ok, o |-> v.o])

\* orderStorage.CreateOrder on a database that fails at step failAt: 0 is no
\* failure, 1 is pool.Begin, 2 is the INSERT of the order row, 2 + i is the
\* INSERT of item i, and Len(items) + 3 is tx.Commit: [st, err, o]
StorageCreateOrderFailing(st, order, failAt) ==
    Bind(OrderValidate(order, Len(st.rows) + 1), LAMBDA v :
        IF v.err # Ok
        THEN [st |-> [st EXCEPT !.cache = CacheDeleteAll(@)],
              err |-> v.err, o |-> v.o]
        ELSE LET n == Len(v.o.items)
                 k == IF failAt = 0 THEN n + 1
                      ELSE IF failAt <= 2 THEN 0
                      ELSE failAt - 2
             IN  [st |-> [rows |-> TxEnd(st.rows, v.o, k, failAt = 0),
                          cache |-> CacheDeleteAll(st.cache),
                          lists |-> st.lists],
                  err |-> IF failAt = 0 THEN Ok ELSE ErrDatabase,
                  o |-> v.o])

\* orderStorage.UpdateOrder: [st, err, ref] (ref holds the order returned)
StorageUpdateOrder(st, req) ==
    IF UpdateOrderRequestValidate(req) # Ok
    THEN [st |-> [st EXCEPT !.cache = CacheDeleteAll(@)],
          err |-> UpdateOrderRequestValidate(req), ref |-> Nil]
    ELSE IF RowsAffected(st.rows, req.id) = 0
    THEN [st |-> [st EXCEPT !.cache = CacheDeleteAll(@)],
          err |-> ErrOrderNotFound, ref |-> Nil]
    ELSE Bind(StorageOrders([rows |-> ExecUpdateOrder(st.rows, req),
                             cache |-> CacheDeleteAll(st.cache),
                             lists |-> st.lists],
                            OrdersRequest(<<req.id>>, 1)),
              LAMBDA got :
                IF Len(got.st.lists[got.ref]) = 0
                THEN [st |-> got.st, err |-> ErrOrderNotFound, ref |-> Nil]
                ELSE [st |-> got.st, err |-> Ok, ref |-> got.ref])

\* userStorage.Users: [cache, list]; user objects are never written to after
\* they are read, so the cache holds the list itself
StorageUsers(rows, cache, req) ==
    Bind(RequestValidate(req), LAMBDA r :
    Bind(UsersCacheKey(r), LAMBDA key :
        IF CacheHas(cache, key) THEN [cache |-> cache, list |-> cache[key]]
        ELSE Bind(QueryUsers(rows, r), LAMBDA list :
                 [cache |-> CacheSet(cache, key, list), list |-> list])))

\* User.Validate on the fields it tests; the id is assigned by the storage
UserValidate(u) ==
    IF TrimSpace(u.firstName) = <<>> THEN ErrUserValidation
    ELSE IF TrimSpace(u.lastName) = <<>> THEN ErrUserValidation
    ELSE IF u.age < 18 THEN ErrUserValidation
    ELSE IF Len(u.hash) = 0 THEN ErrUserValidation
    ELSE IF Len(u.salt) = 0 THEN ErrUserValidation
    ELSE Ok

\* userStorage.CreateUser: [rows, cache, err]; the new row takes the next id
StorageCreateUser(rows, cache, user) ==
    IF UserValidate(user) # Ok
    THEN [rows |-> rows, cache |-> CacheDeleteAll(cache), err |-> UserValidate(user)]
    ELSE [rows |-> rows \cup {Cardinality(rows) + 1},
          cache |-> CacheDeleteAll(cache), err |-> Ok]

\* a Validate that accepts every request
CreateUserRequestUnchecked(r) == Ok

\* CreateUserRequest.Validate
CreateUserRequestValidate(r) ==
    IF TrimSpace(r.firstName) = <<>> THEN ErrUserValidation
    ELSE IF TrimSpace(r.lastName) = <<>> THEN ErrUserValidation
    ELSE IF r.age < 18 THEN ErrUserValidation
    ELSE IF Len(r.password) < 8 THEN ErrUserValidation
    ELSE Ok

\* User.SetPassword: [err, u]; salt is the uuid.New() it draws, and the bcrypt
\* hash of the salted password is kept as the pair it is computed from
SetPassword(u, password, salt) ==
    IF Len(password) < 8 THEN [err |-> ErrUserValidation, u |-> u]
    ELSE [err |-> Ok, u |-> [u EXCEPT !.salt = <<salt>>,
                                      !.hash = <<"bcrypt", password \o <<salt>> >>]]

\* CreateUserRequest.ToDomain: [err, u]
CreateUserRequestToDomain(r, salt) ==
    IF CreateUserRequestValidate(r) # Ok
    THEN [err |-> CreateUserRequestValidate(r), u |-> <<>>]
    ELSE Bind(SetPassword([firstName |-> TrimSpace(r.firstName),
                           lastName |-> TrimSpace(r.lastName),
                           age |-> r.age, hash |-> <<>>, salt |-> <<>>],
                          r.password, salt),
              LAMBDA set : [err |-> set.err,
                            u |-> IF set.err = Ok THEN <<set.u>> ELSE <<>>])

\* userAppService.RegisterUser: [rows, cache, err, u] (u holds the user
\* returned, which is the user handed to the INSERT)
AppRegisterUser(rows, cache, req, salt) ==
    Bind(CreateUserRequestToDomain(req, salt), LAMBDA d :
        IF d.err # Ok THEN [rows |-> rows, cache |-> cache, err |-> d.err, u |-> <<>>]
        ELSE Bind(StorageCreateUser(rows, cache, d.u[1]), LAMBDA ins :
                [rows |-> ins.rows, cache |-> ins.cache, err |-> ins.err,
                 u |-> IF ins.err = Ok THEN d.u ELSE <<>>]))

\* productAppService.CreateProduct: [st, err, p]
AppCreateProduct(st, req) ==
    Bind(CreateProductRequestToDomain(req), LAMBDA d :
        IF d.err # Ok THEN [st |-> st, err |-> d.err, p |-> d.p]
        ELSE StorageCreateProduct(st, d.p))

-----------------------------------------------------------------------------
(* The application services, one call run to its end without interruption.  *)
(* The world is the record [users, ucache, ps, os]: the users table and its *)
(* cache, the product storage and the order storage.  Go iterates a map in  *)
(* an unspecified order: the callers pass the order of each "range" loop.   *)

\* a requestedQuantities that keeps the quantity of the last line that names
\* pid (= in place of +=)
QuantityOfLastLine(items, pid) ==
    IF \E i \in DOMAIN items : items[i].productId = pid
    THEN items[CHOOSE i \in DOMAIN items :
                 /\ items[i].productId = pid
                 /\ \A j \in DOMAIN items : items[j].productId = pid => j <= i].quantity
    ELSE 0

\* requestedQuantities[pid] of CreateOrder, productQuantityToRestore[pid] of
\* CancelOrder: the += over the lines that name pid
QuantityFor(items, pid) ==
    SumSeq([i \in DOMAIN items |->
               IF items[i].productId = pid THEN items[i].quantity ELSE 0])

\* the keys of those maps
ProductIdsOf(items) == {items[i].productId : i \in DOMAIN items}

\* productMap[pid] of CreateOrder: where the list holds the product pid
InList(list, pid) == \E i \in DOMAIN list : list[i].id = pid
IndexIn(list, pid) == CHOOSE i \in DOMAIN list : list[i].id = pid

\* the object at lists[ref][i] replaced by obj: a write through the pointer
HeapWrite(lists, ref, i, obj) == [lists EXCEPT ![ref] = [@ EXCEPT ![i] = obj]]

\* the request CreateOrder and CancelOrder hand to UpdateProduct: the id and a
\* pointer to the quantity of the product p
QuantityUpdate(p) == [id |-> p.id, desc |-> None, tags |-> <<>>, q |-> Some(p.q)]

\* the loop "Check if all products exist and have sufficient quantity" taken
\* in the order ord: the error of the first product that fails, else Ok
RECURSIVE CheckProducts(_, _, _)
CheckProducts(list, items, ord) ==
    IF ord = <<>> THEN Ok
    ELSE IF ~InList(list, Head(ord)) THEN ErrProductNotFound
    ELSE IF list[IndexIn(list, Head(ord))].q < QuantityFor(items, Head(ord))
         THEN ErrInsufficientStock
    ELSE CheckProducts(list, items, Tail(ord))

\* the loop "Reserve products (decrease quantities)" taken in the order ord on
\* the products of lists[ref]: [st, err]
RECURSIVE ReserveProducts(_, _, _, _)
ReserveProducts(st, ref, items, ord) ==
    IF ord = <<>> THEN [st |-> st, err |-> Ok]
    ELSE
      Bind(IndexIn(st.lists[ref], Head(ord)), LAMBDA i :
      Bind(ReserveQuantity(st.lists[ref][i], QuantityFor(items, Head(ord))),
           LAMBDA res :
        IF res.err # Ok THEN [st |-> st, err |-> res.err]
        ELSE
          Bind(StorageUpdateProduct([st EXCEPT !.lists = HeapWrite(@, ref, i, res.p)],
                                    QuantityUpdate(res.p)),
               LAMBDA upd :
                 IF upd.err # Ok THEN [st |-> upd.st, err |-> upd.err]
                 ELSE ReserveProducts(upd.st, ref, items, Tail(ord)))))

\* an order built with its items last line first
BuildOrderReversed(req, list) ==
    [id |-> Nil, userId |-> req.userId, status |-> OrderStatusPending,
     items |-> [i \in DOMAIN req.items |->
                  [productId |-> req.items[Len(req.items) + 1 - i].productId,
                   quantity |-> req.items[Len(req.items) + 1 - i].quantity,
                   snapshot |->
                     [desc |-> list[IndexIn(list,
                                 req.items[Len(req.items) + 1 - i].productId)].desc,
                      tags |-> list[IndexIn(list,
                                 req.items[Len(req.items) + 1 - i].productId)].tags]]]]

\* the order CreateOrder builds: one item per line, with the snapshot of the
\* product as the list holds it
BuildOrder(req, list) ==
    [id |-> Nil, userId |-> req.userId, status |-> OrderStatusPending,
     items |-> [i \in DOMAIN req.items |->
                  [productId |-> req.items[i].productId,
                   quantity |-> req.items[i].quantity,
                   snapshot |->
                     [desc |-> list[IndexIn(list, req.items[i].productId)].desc,
                      tags |-> list[IndexIn(list, req.items[i].productId)].tags]]]]

NoOrder == <<>>     \* a nil *domain.Order

\* the result of an application-service call
Result(w, err, ret) == [w |-> w, err |-> err, ret |-> ret]

\* CreateOrder from "Reserve products" on: got is what Products returned
CreateOrderReserve(w, req, got, reserveOrd) ==
    Bind(ReserveProducts(got.st, got.ref, req.items, reserveOrd), LAMBDA rsv :
        IF rsv.err # Ok THEN Result([w EXCEPT !.ps = rsv.st], rsv.err, NoOrder)
        ELSE
          Bind(StorageCreateOrder(w.os, BuildOrder(req, rsv.st.lists[got.ref])),
               LAMBDA ins :
                 Result([w EXCEPT !.ps = rsv.st, !.os = ins.st], ins.err,
                        IF ins.err # Ok THEN NoOrder ELSE <<ins.o>>)))

\* CreateOrder from "Get all products from request" on
CreateOrderProducts(w, req, checkOrd, reserveOrd) ==
    Bind(StorageProducts(w.ps,
             ProductsRequest([i \in DOMAIN req.items |-> req.items[i].productId], 0)),
         LAMBDA got :
           Bind(CheckProducts(got.st.lists[got.ref], req.items, checkOrd),
                LAMBDA chk :
                  IF chk # Ok THEN Result([w EXCEPT !.ps = got.st], chk, NoOrder)
                  ELSE CreateOrderReserve(w, req, got, reserveOrd)))

\* orderAppService.CreateOrder: [w, err, ret]; checkOrd and reserveOrd are the
\* orders in which the two loops range over requestedQuantities
AppCreateOrder(w, req, checkOrd, reserveOrd) ==
    IF CreateOrderRequestValidate(req) # Ok
    THEN Result(w, CreateOrderRequestValidate(req), NoOrder)
    ELSE
      Bind(StorageUsers(w.users, w.ucache, UsersRequest(<<req.userId>>, 1)),
           LAMBDA u :
             IF Len(u.list) = 0
             THEN Result([w EXCEPT !.ucache = u.cache], ErrUserNotFound, NoOrder)
             ELSE CreateOrderProducts([w EXCEPT !.ucache = u.cache], req,
                                      checkOrd, reserveOrd))

\* an error return that first puts the product rows back as they were when
\* CreateOrder was called
UndoReservations(before, after) == [after EXCEPT !.rows = before.rows]

\* "return nil, err" of CreateOrder once it has begun to reserve: the product
\* storage is left as the calls made so far (after) have left it; before is
\* the product storage when CreateOrder was called
ReturnError(before, after) == after

\* the loop "Reserve products" on a database where the UPDATE of the k-th
\* product of ord fails (k = 0: none fails): [st, err]
RECURSIVE ReserveProductsFailing(_, _, _, _, _)
ReserveProductsFailing(st, ref, items, ord, k) ==
    IF ord = <<>> THEN [st |-> st, err |-> Ok]
    ELSE
      Bind(IndexIn(st.lists[ref], Head(ord)), LAMBDA i :
      Bind(ReserveQuantity(st.lists[ref][i], QuantityFor(items, Head(ord))),
           LAMBDA res :
        IF res.err # Ok THEN [st |-> st, err |-> res.err]
        ELSE IF k = 1
        THEN [st |-> [st EXCEPT !.lists = HeapWrite(@, ref, i, res.p),
                                !.cache = CacheDeleteAll(@)],
              err |-> ErrDatabase]
        ELSE
          Bind(StorageUpdateProduct([st EXCEPT !.lists = HeapWrite(@, ref, i, res.p)],
                                    QuantityUpdate(res.p)),
               LAMBDA upd :
                 IF upd.err # Ok THEN [st |-> upd.st, err |-> upd.err]
                 ELSE ReserveProductsFailing(upd.st, ref, items, Tail(ord),
                                             IF k = 0 THEN 0 ELSE k - 1))))

\* CreateOrder from "Reserve products" on, on a database where the UPDATE of
\* the k-th product fails and the transaction of the order fails at failAt
CreateOrderReserveFailing(w, req, got, reserveOrd, k, failAt) ==
    Bind(ReserveProductsFailing(got.st, got.ref, req.items, reserveOrd, k),
         LAMBDA rsv :
        IF rsv.err # Ok
        THEN Result([w EXCEPT !.ps = ReturnError(w.ps, rsv.st)], rsv.err, NoOrder)
        ELSE
          Bind(StorageCreateOrderFailing(w.os, BuildOrder(req, rsv.st.lists[got.ref]),
                                         failAt),
               LAMBDA ins :
                 Result([w EXCEPT !.ps = IF ins.err # Ok
                                         THEN ReturnError(w.ps, rsv.st) ELSE rsv.st,
                                  !.os = ins.st],
                        ins.err, IF ins.err # Ok THEN NoOrder ELSE <<ins.o>>)))

\* orderAppService.CreateOrder on that database: [w, err, ret]
AppCreateOrderFailing(w, req, checkOrd, reserveOrd, k, failAt) ==
    IF CreateOrderRequestValidate(req) # Ok
    THEN Result(w, CreateOrderRequestValidate(req), NoOrder)
    ELSE
      Bind(StorageUsers(w.users, w.ucache, UsersRequest(<<req.userId>>, 1)),
           LAMBDA u :
        IF Len(u.list) = 0
        THEN Result([w EXCEPT !.ucache = u.cache], ErrUserNotFound, NoOrder)
        ELSE
          Bind(StorageProducts(w.ps,
                   ProductsRequest([i \in DOMAIN req.items |-> req.items[i].productId], 0)),
               LAMBDA got :
            Bind(CheckProducts(got.st.lists[got.ref], req.items, checkOrd),
                 LAMBDA chk :
                   IF chk # Ok
                   THEN Result([w EXCEPT !.ucache = u.cache, !.ps = got.st], chk, NoOrder)
                   ELSE CreateOrderReserveFailing([w EXCEPT !.ucache = u.cache], req,
                                                  got, reserveOrd, k, failAt))))

\* a restore loop that returns ProductNotFound at a product that Products
\* does not find
RECURSIVE RestoreProductsOrFail(_, _, _)
RestoreProductsOrFail(st, items, ord) ==
    IF ord = <<>> THEN [st |-> st, err |-> Ok]
    ELSE
      Bind(StorageProducts(st, ProductsRequest(<<Head(ord)>>, 1)), LAMBDA got :
        IF Len(got.st.lists[got.ref]) = 0
        THEN [st |-> got.st, err |-> ErrProductNotFound]
        ELSE
          Bind(RestoreQuantity(got.st.lists[got.ref][1], QuantityFor(items, Head(ord))),
               LAMBDA res :
            IF res.err # Ok THEN [st |-> got.st, err |-> res.err]
            ELSE
              Bind(StorageUpdateProduct(
                       [got.st EXCEPT !.lists = HeapWrite(@, got.ref, 1, res.p)],
                       QuantityUpdate(res.p)),
                   LAMBDA upd :
                     IF upd.err # Ok THEN [st |-> upd.st, err |-> upd.err]
                     ELSE RestoreProductsOrFail(upd.st, items, Tail(ord)))))

\* a restore loop that restores nothing
RestoreNothing(st, items, ord) == [st |-> st, err |-> Ok]

\* the loop "Restore product quantities" of CancelOrder taken in the order
\* ord: [st, err]
RECURSIVE RestoreProducts(_, _, _)
RestoreProducts(st, items, ord) ==
    IF ord = <<>> THEN [st |-> st, err |-> Ok]
    ELSE
      Bind(StorageProducts(st, ProductsRequest(<<Head(ord)>>, 1)), LAMBDA got :
        IF Len(got.st.lists[got.ref]) = 0
        THEN RestoreProducts(got.st, items, Tail(ord))
        ELSE
          Bind(RestoreQuantity(got.st.lists[got.ref][1], QuantityFor(items, Head(ord))),
               LAMBDA res :
            IF res.err # Ok THEN [st |-> got.st, err |-> res.err]
            ELSE
              Bind(StorageUpdateProduct(
                       [got.st EXCEPT !.lists = HeapWrite(@, got.ref, 1, res.p)],
                       QuantityUpdate(res.p)),
                   LAMBDA upd :
                     IF upd.err # Ok THEN [st |-> upd.st, err |-> upd.err]
                     ELSE RestoreProducts(upd.st, items, Tail(ord)))))

\* CancelOrder from "Cancel the order" on: got is what Orders returned
CancelOrderStatus(w, got) ==
    Bind(Cancel(got.st.lists[got.ref][1]), LAMBDA cnl :
        IF cnl.err # Ok THEN Result(w, cnl.err, NoOrder)
        ELSE
          Bind(StorageUpdateOrder(
                   [got.st EXCEPT !.lists = HeapWrite(@, got.ref, 1, cnl.o)],
                   [id |-> cnl.o.id, status |-> cnl.o.status]),
               LAMBDA upd :
                 Result([w EXCEPT !.os = upd.st], upd.err,
                        IF upd.err # Ok THEN NoOrder
                        ELSE <<upd.st.lists[upd.ref][1]>>)))

\* orderAppService.CancelOrder: [w, err, ret]; the loop ranges over the keys of
\* productQuantityToRestore in the order they have in ord
AppCancelOrder(w, orderId, ord) ==
    Bind(StorageOrders(w.os, OrdersRequest(<<orderId>>, 1)), LAMBDA got :
        IF Len(got.st.lists[got.ref]) = 0
        THEN Result([w EXCEPT !.os = got.st], ErrOrderNotFound, NoOrder)
        ELSE IF ~CanBeCancelled(got.st.lists[got.ref][1])
        THEN Result([w EXCEPT !.os = got.st], ErrOrderValidation, NoOrder)
        ELSE
          Bind(RestoreProducts(w.ps, got.st.lists[got.ref][1].items,
                   SelectSeqBy(ord, ProductIdsOf(got.st.lists[got.ref][1].items))),
               LAMBDA rst :
                 IF rst.err # Ok
                 THEN Result([w EXCEPT !.os = got.st, !.ps = rst.st], rst.err, NoOrder)
                 ELSE CancelOrderStatus([w EXCEPT !.os = got.st, !.ps = rst.st], got)))

\* the loop "Restore product quantities" on a database where the UPDATE of the
\* k-th product restored fails (k = 0: none fails): [st, err]
RECURSIVE RestoreProductsFailing(_, _, _, _)
RestoreProductsFailing(st, items, ord, k) ==
    IF ord = <<>> THEN [st |-> st, err |-> Ok]
    ELSE
      Bind(StorageProducts(st, ProductsRequest(<<Head(ord)>>, 1)), LAMBDA got :
        IF Len(got.st.lists[got.ref]) = 0
        THEN RestoreProductsFailing(got.st, items, Tail(ord), k)
        ELSE
          Bind(RestoreQuantity(got.st.lists[got.ref][1], QuantityFor(items, Head(ord))),
               LAMBDA res :
            IF res.err # Ok THEN [st |-> got.st, err |-> res.err]
            ELSE IF k = 1
            THEN [st |-> [got.st EXCEPT !.lists = HeapWrite(@, got.ref, 1, res.p),
                                        !.cache = CacheDeleteAll(@)],
                  err |-> ErrDatabase]
            ELSE
              Bind(StorageUpdateProduct(
                       [got.st EXCEPT !.lists = HeapWrite(@, got.ref, 1, res.p)],
                       QuantityUpdate(res.p)),
                   LAMBDA upd :
                     IF upd.err # Ok THEN [st |-> upd.st, err |-> upd.err]
                     ELSE RestoreProductsFailing(upd.st, items, Tail(ord),
                                                 IF k = 0 THEN 0 ELSE k - 1))))

\* CancelOrder from "Cancel the order" on, on a database where the UPDATE of
\* the order fails when failStatus holds
CancelOrderStatusFailing(w, got, failStatus) ==
    IF ~failStatus THEN CancelOrderStatus(w, got)
    ELSE
      Bind(Cancel(got.st.lists[got.ref][1]), LAMBDA cnl :
        IF cnl.err # Ok THEN Result(w, cnl.err, NoOrder)
        ELSE Result([w EXCEPT !.os = [got.st EXCEPT
                                        !.lists = HeapWrite(@, got.ref, 1, cnl.o),
                                        !.cache = CacheDeleteAll(@)]],
                    ErrDatabase, NoOrder))

\* orderAppService.CancelOrder on that database: [w, err, ret]
AppCancelOrderFailing(w, orderId, ord, k, failStatus) ==
    Bind(StorageOrders(w.os, OrdersRequest(<<orderId>>, 1)), LAMBDA got :
        IF Len(got.st.lists[got.ref]) = 0
        THEN Result([w EXCEPT !.os = got.st], ErrOrderNotFound, NoOrder)
        ELSE IF ~CanBeCancelled(got.st.lists[got.ref][1])
        THEN Result([w EXCEPT !.os = got.st], ErrOrderValidation, NoOrder)
        ELSE
          Bind(RestoreProductsFailing(w.ps, got.st.lists[got.ref][1].items,
                   SelectSeqBy(ord, ProductIdsOf(got.st.lists[got.ref][1].items)), k),
               LAMBDA rst :
                 IF rst.err # Ok
                 THEN Result([w EXCEPT !.os = got.st, !.ps = rst.st], rst.err, NoOrder)
                 ELSE CancelOrderStatusFailing([w EXCEPT !.os = got.st, !.ps = rst.st],
                                               got, failStatus)))

\* orderAppService.UpdateOrder: [w, err, ret]
AppUpdateOrder(w, req) ==
    Bind(StorageUpdateOrder(w.os, req), LAMBDA upd :
        Result([w EXCEPT !.os = upd.st], upd.err,
               IF upd.err = Ok THEN <<upd.st.lists[upd.ref][1]>> ELSE NoOrder))

-----------------------------------------------------------------------------
(* State of the sequential specifications *)

\* the world the application services act on, from the variables
World ==
    [users |-> users, ucache |-> ucache,
     ps |-> [rows |-> products, cache |-> pcache, lists |-> plists],
     os |-> [rows |-> orders, cache |-> ocache, lists |-> olists]]

\* the variables after a call that left the world w; lists that no cache
\* refers to are collected
Commit(w) ==
    /\ users' = w.users
    /\ ucache' = w.ucache
    /\ products' = w.ps.rows
    /\ pcache' = w.ps.cache
    /\ plists' = HeapKeep(w.ps.lists, Range(w.ps.cache))
    /\ orders' = w.os.rows
    /\ ocache' = w.os.cache
    /\ olists' = HeapKeep(w.os.lists, Range(w.os.cache))

\* no cache holds more than n entries
CacheRoom(n) ==
    /\ Cardinality(DOMAIN ucache) <= n
    /\ Cardinality(DOMAIN pcache) <= n
    /\ Cardinality(DOMAIN ocache) <= n

Quantities(rows) == [i \in DOMAIN rows |-> rows[i].q]

NoRequest == [userId |-> Nil, items |-> <<>>]

\* the record of a completed call: the operation, its input (req, id, status),
\* the error and the entity it returned, and the persisted quantities when it
\* was called
Call(op, req, id, status, err, ret, pre) ==
    [op |-> op, req |-> req, id |-> id, status |-> status, err |-> err,
     ret |-> ret, pre |-> pre]

\* the descriptions and tags of the rows present at the start
InitDesc(id) == IF id = 1 THEN <<"a">> ELSE <<"b">>
InitTags(id) == IF id = 1 THEN <<>> ELSE << <<"c">> >>

\* an Order and a Product in memory, as toDomain builds them from a row
NewOrder(status) == [id |-> 1, userId |-> 1, status |-> status, items |-> <<>>]
NewProduct(q) == [id |-> 1, desc |-> InitDesc(1), tags |-> InitTags(1), q |-> q]

\* the aggregates in memory, the last method called on one of them, its
\* argument and error, and the aggregates before the call
Aggregates(op, arg, err, order, product, before) ==
    [op |-> op, arg |-> arg, err |-> err, order |-> order, product |-> product,
     before |-> before]

InitAgg ==
    Aggregates("new", 0, Ok, NewOrder(OrderStatusPending), NewProduct(0),
               [order |-> NewOrder(OrderStatusPending), product |-> NewProduct(0),
                op |-> "new", arg |-> 0, err |-> Ok])

\* a handler of the interleaved specification: where it stands (pc), its
\* CreateOrderRequest (req), the orders of its two loops over
\* requestedQuantities that are still to run (ctodo, todo), the list request
\* Products is serving and where Products returns to (lreq, back), the rows
\* Products has read (list) and the list it returned (got), the list productMap
\* points into (ref), the quantity loaded by "-=" (reg) and the error returned
Handler(pc, req, ctodo, todo, lreq, back, list, got, ref, reg, err) ==
    [pc |-> pc, req |-> req, ctodo |-> ctodo, todo |-> todo, lreq |-> lreq,
     back |-> back, list |-> list, got |-> got, ref |-> ref, reg |-> reg,
     err |-> err]

NoListRequest == ProductsRequest(<<>>, 0)

Idle == Handler("idle", NoRequest, <<>>, <<>>, NoListRequest, "", <<>>, Nil, Nil, 0, Ok)

\* The service starts on a database that holds one user and the products;
\* every cache is empty and no handler is running
Init ==
    /\ users = {1}
    /\ \E qs \in [1..MaxProducts -> 0..MaxInit] :
         products = [id \in 1..MaxProducts |->
                       [desc |-> InitDesc(id), tags |-> InitTags(id), q |-> qs[id]]]
    /\ orders = <<>>
    /\ ucache = EmptyCache
    /\ pcache = EmptyCache
    /\ ocache = EmptyCache
    /\ plists = <<>>
    /\ olists = <<>>
    /\ proc = [self \in 1..NumProcs |-> Idle]
    /\ last = Call("init", NoRequest, Nil, "", Ok, NoOrder, Quantities(products))
    /\ agg = InitAgg

-----------------------------------------------------------------------------
(* Inputs *)

UserIdInputs == 0..2                    \* Nil, the user, an absent user
Lines == [productId : 1..MaxProducts, quantity : 1..MaxQty]
\* a line with a Nil product, with no quantity, with an absent product
BadLines == {[productId |-> Nil, quantity |-> 1], [productId |-> 1, quantity |-> 0],
             [productId |-> MaxProducts + 1, quantity |-> 1]}
\* the well-formed requests of the user for products that exist
OrderRequests ==
    [userId : {1}, items : UNION {[1..n -> Lines] : n \in 1..MaxItems}]
\* every shape of request: those, the empty one, those with a line of BadLines
\* in place of the last line, one line for Nil and for the absent user, and
\* for the absent user no line and each line of BadLines
CreateOrderRequests ==
    OrderRequests
      \cup {[userId |-> 1, items |-> <<>>]}
      \cup {[r EXCEPT !.items[Len(r.items)] = b] : r \in OrderRequests, b \in BadLines}
      \cup [userId : UserIdInputs \ {1}, items : [1..1 -> Lines]]
      \cup {[userId |-> 2, items |-> <<>>]}
      \cup {[userId |-> 2, items |-> <<b>>] : b \in BadLines}
OrderIdInputs == 0..MaxOrders
StatusInputs == Statuses \cup {"shipped"}

-----------------------------------------------------------------------------
(* Actions of the sequential specifications: one call at a time *)

\* a call of orderAppService.CreateOrder with a request of reqs, its loops
\* ranging over requestedQuantities in an order of RangeOrders
CreateOrderCall(reqs, RangeOrders(_)) ==
    \E req \in reqs :
      \E checkOrd, reserveOrd \in RangeOrders(ProductIdsOf(req.items)) :
        \E res \in {AppCreateOrder(World, req, checkOrd, reserveOrd)} :
            /\ Len(res.w.os.rows) <= MaxOrders
            /\ Commit(res.w)
            /\ last' = Call("createOrder", req, Nil, "", res.err, res.ret,
                            Quantities(products))
            /\ UNCHANGED <<proc, agg>>

\* a call of orderAppService.CancelOrder
CancelOrderCall ==
    \E id \in OrderIdInputs :
      \E ord \in Orderings(1..MaxProducts) :
        \E res \in {AppCancelOrder(World, id, ord)} :
            /\ \A i \in DOMAIN res.w.ps.rows : res.w.ps.rows[i].q <= MaxStock
            /\ Commit(res.w)
            /\ last' = Call("cancelOrder", NoRequest, id, "", res.err, res.ret,
                            Quantities(products))
            /\ UNCHANGED <<proc, agg>>

\* a call of orderAppService.UpdateOrder
UpdateOrderCall ==
    \E id \in OrderIdInputs, st \in StatusInputs :
        \E res \in {AppUpdateOrder(World, [id |-> id, status |-> st])} :
            /\ Commit(res.w)
            /\ last' = Call("updateOrder", NoRequest, id, st, res.err, res.ret,
                            Quantities(products))
            /\ UNCHANGED <<proc, agg>>

\* The lifecycle of an order: well-formed orders are placed, cancelled and
\* updated, one call at a time
CreateOrder == CreateOrderCall(OrderRequests, Orderings) /\ CacheRoom(MaxCache)'
CancelOrder == CancelOrderCall /\ CacheRoom(MaxCache)'
UpdateOrder == UpdateOrderCall /\ CacheRoom(MaxCache)'

Next == CreateOrder \/ CancelOrder \/ UpdateOrder

Spec == Init /\ [][Next]_vars

\* Order placement alone, with every shape of request and room in the caches
\* for the list a failing call leaves behind
CreateOrderAnyRequest ==
    CreateOrderCall(CreateOrderRequests, Orderings) /\ CacheRoom(MaxCache + 1)'

NextCreate == CreateOrderAnyRequest

SpecCreate == Init /\ [][NextCreate]_vars

\* Order placement on a catalogue of one product more than a list request
\* returns by default.  A product in ids starts with no stock, the others with
\* one unit.
InitBatch ==
    /\ users = {1}
    /\ \E short \in SUBSET (1..DefaultLimit + 1) :
         /\ Cardinality(short) <= MaxShort
         /\ products = [id \in 1..DefaultLimit + 1 |->
                          [desc |-> InitDesc(id), tags |-> InitTags(id),
                           q |-> IF id \in short THEN 0 ELSE 1]]
    /\ orders = <<>>
    /\ ucache = EmptyCache
    /\ pcache = EmptyCache
    /\ ocache = EmptyCache
    /\ plists = <<>>
    /\ olists = <<>>
    /\ proc = [self \in 1..NumProcs |-> Idle]
    /\ last = Call("init", NoRequest, Nil, "", Ok, NoOrder, Quantities(products))
    /\ agg = InitAgg

\* one unit of each product from lo to hi, for the orders that name about as
\* many products as a list request returns by default
BatchRequests ==
    {[userId |-> 1,
      items |-> [i \in 1..(hi - lo + 1) |-> [productId |-> lo + i - 1, quantity |-> 1]]] :
        lo \in 1..MaxProducts, hi \in DefaultLimit..DefaultLimit + 1}

\* a call of CreateOrder for many products; of the orders a range over a map
\* of that many keys may take, the rotations are followed
CreateOrderBatch == CreateOrderCall(BatchRequests, Rotations) /\ CacheRoom(MaxCache)'

NextBatch == CreateOrderBatch

SpecBatch == InitBatch /\ [][NextBatch]_vars

-----------------------------------------------------------------------------
(* The storages called one at a time: lists and writes on the three         *)
(* collections                                                              *)

\* the product storage and the order storage, from the variables
ProductStore == [rows |-> products, cache |-> pcache, lists |-> plists]
OrderStore == [rows |-> orders, cache |-> ocache, lists |-> olists]

\* the operations that write a collection
WritesOf(collection) ==
    CASE collection = "products" -> {"createProduct", "updateProduct"}
      [] collection = "users" -> {"createUser"}
      [] collection = "orders" -> {"storeOrder", "updateOrder"}

\* the collection the call c wrote, when it returned no error
WrittenBy(c) ==
    IF c.err # Ok THEN "none"
    ELSE IF c.op \in WritesOf("products") THEN "products"
    ELSE IF c.op \in WritesOf("users") THEN "users"
    ELSE IF c.op \in WritesOf("orders") THEN "orders"
    ELSE "none"

\* the record of the call c, with the collection written by the call that
\* completed before it
Sequel(c, prev) ==
    [op |-> c.op, req |-> c.req, id |-> c.id, status |-> c.status,
     err |-> c.err, ret |-> c.ret, pre |-> c.pre, after |-> WrittenBy(prev)]

\* the three caches hold no more than n entries together
StoreRoom(n) ==
    Cardinality(DOMAIN ucache) + Cardinality(DOMAIN pcache)
      + Cardinality(DOMAIN ocache) <= n

\* the record of the call c, with the request and the result of the call that
\* completed before it
Repeat(c, prev) ==
    [op |-> c.op, req |-> c.req, id |-> c.id, status |-> c.status,
     err |-> c.err, ret |-> c.ret, pre |-> c.pre,
     before |-> [op |-> prev.op, req |-> prev.req, ret |-> prev.ret]]

\* the rows of the products at the start: one unit of each
StoreRows ==
    [id \in 1..MaxProducts |->
        [desc |-> InitDesc(id), tags |-> InitTags(id), q |-> 1]]

NoCall == Call("init", NoRequest, Nil, "", Ok, NoOrder, Quantities(StoreRows))

\* the database holds one user and the products in rows, every cache is empty
\* and the record of the last call is l
Fresh(rows, l) ==
    /\ users = {1}
    /\ products = rows
    /\ orders = <<>>
    /\ ucache = EmptyCache
    /\ pcache = EmptyCache
    /\ ocache = EmptyCache
    /\ plists = <<>>
    /\ olists = <<>>
    /\ proc = [self \in 1..NumProcs |-> Idle]
    /\ last = l
    /\ agg = InitAgg

InitStore == Fresh(StoreRows, Sequel(NoCall, NoCall))

\* limits and offsets of the list requests
ListLimits == {0, 1}
ListOffsets == {-1, 0}

ProductListRequests ==
    [ids : {<<>>, <<1>>}, tags : {<<>>}, available : {None, Some(TRUE)},
     limit : ListLimits, offset : ListOffsets]
UserListRequests == [ids : {<<>>, <<2>>}, limit : ListLimits, offset : {0}]
OrderListRequests ==
    [ids : {<<>>}, userIds : {<<>>, <<1>>}, statuses : {<<>>, <<OrderStatusCancelled>>},
     limit : ListLimits, offset : {0}]

\* a product, and one with a blank description
CreateProductInputs == [desc : {<<"c">>, <<" ">>}, tags : {<<>>}, q : {1}]
\* product 1 sold out, product 1 renamed, a negative quantity, an absent product
UpdateProductInputs ==
    {[id |-> 1, desc |-> None, tags |-> <<>>, q |-> Some(0)],
     [id |-> 1, desc |-> Some(<<"c">>), tags |-> <<>>, q |-> None],
     [id |-> 1, desc |-> None, tags |-> <<>>, q |-> Some(-1)],
     [id |-> MaxProducts + 2, desc |-> None, tags |-> <<>>, q |-> Some(0)]}
\* an adult and a minor, as CreateUserRequest.ToDomain builds them
CreateUserInputs ==
    [firstName : {<<"a">>}, lastName : {<<"b">>}, age : {17, 18},
     hash : {<<1>>}, salt : {<<1>>}]
\* an order of one unit of product 1, and one of no lines
StoreOrderInputs ==
    {[id |-> Nil, userId |-> 1, status |-> OrderStatusPending, items |-> items] :
        items \in {<<>>, <<[productId |-> 1, quantity |-> 1,
                            snapshot |-> [desc |-> InitDesc(1), tags |-> InitTags(1)]]>>}}

\* productStorage.Products with a request of reqs; Record makes the record of
\* the call
ProductsCall(reqs, Record(_, _)) ==
    /\ \E req \in reqs :
         \E got \in {StorageProducts(ProductStore, req)} :
            /\ pcache' = got.st.cache
            /\ plists' = HeapKeep(got.st.lists, Range(got.st.cache))
            /\ last' = Record(Call("products", req, Nil, "", Ok,
                                   got.st.lists[got.ref], Quantities(products)), last)
    /\ UNCHANGED <<users, products, orders, ucache, ocache, olists, proc, agg>>

Products == ProductsCall(ProductListRequests, Sequel) /\ StoreRoom(MaxCache)'

\* productAppService.CreateProduct
CreateProduct ==
    /\ \E req \in CreateProductInputs :
         \E res \in {AppCreateProduct(ProductStore, req)} :
            /\ Len(res.st.rows) <= MaxProducts + 1
            /\ products' = res.st.rows
            /\ pcache' = res.st.cache
            /\ plists' = HeapKeep(res.st.lists, Range(res.st.cache))
            /\ last' = Sequel(Call("createProduct", req, Nil, "", res.err,
                                   IF res.err = Ok THEN <<res.p>> ELSE NoOrder,
                                   Quantities(products)), last)
    /\ UNCHANGED <<users, orders, ucache, ocache, olists, proc, agg>>

\* productAppService.UpdateProduct
UpdateProduct ==
    /\ \E req \in UpdateProductInputs :
         \E res \in {StorageUpdateProduct(ProductStore, req)} :
            /\ products' = res.st.rows
            /\ pcache' = res.st.cache
            /\ plists' = HeapKeep(res.st.lists, Range(res.st.cache))
            /\ last' = Sequel(Call("updateProduct", req, req.id, "", res.err,
                                   IF res.err = Ok THEN <<res.st.lists[res.ref][1]>>
                                   ELSE NoOrder,
                                   Quantities(products)), last)
    /\ UNCHANGED <<users, orders, ucache, ocache, olists, proc, agg>>
    /\ StoreRoom(MaxCache)'

\* userStorage.Users
UsersCall(reqs, Record(_, _)) ==
    /\ \E req \in reqs :
         \E got \in {StorageUsers(users, ucache, req)} :
            /\ ucache' = got.cache
            /\ last' = Record(Call("users", req, Nil, "", Ok, got.list,
                                   Quantities(products)), last)
    /\ UNCHANGED <<users, products, orders, pcache, ocache, plists, olists, proc, agg>>

Users == UsersCall(UserListRequests, Sequel) /\ StoreRoom(MaxCache)'

\* userStorage.CreateUser
CreateUser ==
    /\ \E user \in CreateUserInputs :
         \E res \in {StorageCreateUser(users, ucache, user)} :
            /\ Cardinality(res.rows) <= 2
            /\ users' = res.rows
            /\ ucache' = res.cache
            /\ last' = Sequel(Call("createUser", user, Nil, "", res.err, NoOrder,
                                   Quantities(products)), last)
    /\ UNCHANGED <<products, orders, pcache, ocache, plists, olists, proc, agg>>

\* orderStorage.Orders
OrdersCall(reqs, Record(_, _)) ==
    /\ \E req \in reqs :
         \E got \in {StorageOrders(OrderStore, req)} :
            /\ ocache' = got.st.cache
            /\ olists' = HeapKeep(got.st.lists, Range(got.st.cache))
            /\ last' = Record(Call("orders", req, Nil, "", Ok,
                                   got.st.lists[got.ref], Quantities(products)), last)
    /\ UNCHANGED <<users, products, orders, ucache, pcache, plists, proc, agg>>

Orders == OrdersCall(OrderListRequests, Sequel) /\ StoreRoom(MaxCache)'

\* orderStorage.CreateOrder
StoreOrder ==
    /\ \E order \in StoreOrderInputs :
         \E res \in {StorageCreateOrder(OrderStore, order)} :
            /\ Len(res.st.rows) <= MaxOrders
            /\ orders' = res.st.rows
            /\ ocache' = res.st.cache
            /\ olists' = HeapKeep(res.st.lists, Range(res.st.cache))
            /\ last' = Sequel(Call("storeOrder", order, Nil, "", res.err,
                                   IF res.err = Ok THEN <<res.o>> ELSE NoOrder,
                                   Quantities(products)), last)
    /\ UNCHANGED <<users, products, ucache, pcache, plists, proc, agg>>

\* orderStorage.UpdateOrder
StoreOrderStatus ==
    /\ \E id \in 1..MaxOrders + 1, st \in {OrderStatusCancelled, "shipped"} :
         \E res \in {StorageUpdateOrder(OrderStore, [id |-> id, status |-> st])} :
            /\ orders' = res.st.rows
            /\ ocache' = res.st.cache
            /\ olists' = HeapKeep(res.st.lists, Range(res.st.cache))
            /\ last' = Sequel(Call("updateOrder", NoRequest, id, st, res.err,
                                   IF res.err = Ok THEN <<res.st.lists[res.ref][1]>>
                                   ELSE NoOrder,
                                   Quantities(products)), last)
    /\ UNCHANGED <<users, products, ucache, pcache, plists, proc, agg>>
    /\ StoreRoom(MaxCache)'

NextStore ==
    \/ Products
    \/ CreateProduct
    \/ UpdateProduct
    \/ Users
    \/ CreateUser
    \/ Orders
    \/ StoreOrder
    \/ StoreOrderStatus

SpecStore == InitStore /\ [][NextStore]_vars

\* orderStorage.CreateOrder and orderStorage.Orders on a database that may
\* fail at any step of the transaction
ItemOf(pid) ==
    [productId |-> pid, quantity |-> 1,
     snapshot |-> [desc |-> InitDesc(pid), tags |-> InitTags(pid)]]

FailingOrderInputs ==
    {[id |-> Nil, userId |-> u, status |-> OrderStatusPending, items |-> items] :
        u \in {Nil, 1},
        items \in {<<>>, <<ItemOf(1)>>, <<ItemOf(1), ItemOf(2)>>,
                   <<ItemOf(1), [ItemOf(2) EXCEPT !.quantity = 0]>>}}

\* the steps of the transaction: 0 is "none fails"
FailSteps(order) == 0..Len(order.items) + 3

StoreOrderFailing ==
    /\ \E order \in FailingOrderInputs :
         \E failAt \in FailSteps(order) :
            \E res \in {StorageCreateOrderFailing(OrderStore, order, failAt)} :
               /\ Len(res.st.rows) <= MaxOrders + 1
               /\ orders' = res.st.rows
               /\ ocache' = res.st.cache
               /\ olists' = HeapKeep(res.st.lists, Range(res.st.cache))
               /\ last' = Sequel(Call("storeOrder",
                                      [order |-> order, failAt |-> failAt],
                                      Nil, "", res.err,
                                      IF res.err = Ok THEN <<res.o>> ELSE NoOrder,
                                      Quantities(products)), last)
    /\ UNCHANGED <<users, products, ucache, pcache, plists, proc, agg>>

NextFailing ==
    \/ StoreOrderFailing
    \/ Orders

SpecFailing == InitStore /\ [][NextFailing]_vars

\* The history of an order: orders are placed, cancelled, updated and read
\* back while the catalogue is edited
Plain(c, prev) == c

\* a new description and new tags for product 1
EditProductInputs ==
    {[id |-> 1, desc |-> Some(<<"z">>), tags |-> << <<"t">> >>, q |-> None]}

\* productAppService.UpdateProduct with a request of EditProductInputs
EditProduct ==
    /\ \E req \in EditProductInputs :
         \E res \in {StorageUpdateProduct(ProductStore, req)} :
            /\ products' = res.st.rows
            /\ pcache' = res.st.cache
            /\ plists' = HeapKeep(res.st.lists, Range(res.st.cache))
            /\ last' = Call("updateProduct", req, Nil, "", res.err, NoOrder,
                            Quantities(products))
    /\ UNCHANGED <<users, orders, ucache, ocache, olists, proc, agg>>
    /\ CacheRoom(MaxCache)'

\* orderAppService.Orders: an order by its id, or the first page of all
ReadOrders ==
    /\ OrdersCall({OrdersRequest(ids, 0) : ids \in {<<>>, <<1>>}}, Plain)
    /\ CacheRoom(MaxCache)'

NextHistory ==
    \/ CreateOrder
    \/ CancelOrder
    \/ UpdateOrder
    \/ EditProduct
    \/ ReadOrders

\* one unit of every product is in stock at the start
InitHistory ==
    Fresh(StoreRows, Call("init", NoRequest, Nil, "", Ok, NoOrder,
                          Quantities(StoreRows)))

SpecHistory == InitHistory /\ [][NextHistory]_vars

\* The status of an order: orders of one unit of product 1 are placed and
\* their status is set, to any status from any status
StatusRows == [StoreRows EXCEPT ![1].q = MaxInit]

InitStatus ==
    Fresh(StatusRows, Repeat(Call("init", NoRequest, Nil, "", Ok, NoOrder,
                                  Quantities(StatusRows)), NoCall))

\* orderAppService.CreateOrder
PlaceOrder ==
    \E req \in {[userId |-> 1, items |-> <<[productId |-> 1, quantity |-> 1]>>]} :
      \E res \in {AppCreateOrder(World, req, <<1>>, <<1>>)} :
          /\ Len(res.w.os.rows) <= MaxOrders + 1
          /\ Commit(res.w)
          /\ last' = Repeat(Call("createOrder", req, Nil, "", res.err, res.ret,
                                 Quantities(products)), last)
          /\ UNCHANGED <<proc, agg>>

\* orderAppService.UpdateOrder with the nil id, the id of an order that may
\* exist and the id of none, and every status of StatusInputs
SetStatus ==
    \E id \in 0..MaxOrders + 2, st \in StatusInputs :
        \E res \in {AppUpdateOrder(World, [id |-> id, status |-> st])} :
            /\ Commit(res.w)
            /\ last' = Repeat(Call("updateOrder", NoRequest, id, st, res.err,
                                   res.ret, Quantities(products)), last)
            /\ UNCHANGED <<proc, agg>>

NextStatus ==
    \/ PlaceOrder
    \/ SetStatus

SpecStatus == InitStatus /\ [][NextStatus]_vars

\* The REST handler of POST /api/v1/orders/{order_id}/cancel, for an order id
\* that parses: orderHandler.cancelOrder
PostCancel ==
    \E id \in 0..MaxOrders + 2 :
        \E res \in {AppUpdateOrder(World, [id |-> id, status |-> OrderStatusCancelled])} :
            /\ Commit(res.w)
            /\ last' = Repeat(Call("POST cancel", NoRequest, id, "", res.err,
                                   res.ret, Quantities(products)), last)
            /\ UNCHANGED <<proc, agg>>

NextRest ==
    \/ PlaceOrder
    \/ SetStatus
    \/ PostCancel

SpecRest == InitStatus /\ [][NextRest]_vars

\* Registration: users are registered and listed
MaxUsers == 3
PasswordOf(n) == [i \in 1..n |-> "p"]

RegisterInputs ==
    [firstName : {<<" ">>, <<"A">>}, lastName : {<<>>, <<"B", " ">>},
     age : {17, 18}, password : {PasswordOf(7), PasswordOf(8)}]

\* userAppService.RegisterUser
RegisterUser ==
    /\ \E req \in RegisterInputs, salt \in 1..2 :
         \E res \in {AppRegisterUser(users, ucache, req, salt)} :
            /\ Cardinality(res.rows) <= MaxUsers
            /\ users' = res.rows
            /\ ucache' = res.cache
            /\ last' = Call("registerUser", req, Nil, "", res.err, res.u,
                            Quantities(products))
    /\ UNCHANGED <<products, orders, pcache, ocache, plists, olists, proc, agg>>

\* userAppService.Users
ListUsers == UsersCall(UserListRequests, Plain) /\ StoreRoom(MaxCache + 1)'

NextUsers ==
    \/ RegisterUser
    \/ ListUsers

SpecUsers == Fresh(StoreRows, NoCall) /\ [][NextUsers]_vars

\* The catalogue: products are created and updated with descriptions, tags
\* and quantities that are in order and that are not
CatalogueCreates ==
    [desc : {<<"c", " ">>, <<" ">>},
     tags : {<<>>, << <<" ", "t">>, <<" ">> >>, << <<"t">>, <<"t", " ">> >>},
     q : {-1, 1}]

CatalogueUpdates ==
    {[id |-> id, desc |-> d, tags |-> t, q |-> q] :
        id \in {1, MaxProducts + 2},
        d \in {None, Some(<<" ">>), Some(<<" ", "z">>)},
        t \in {<<>>, << <<"t">> >>, << <<" ", "t">>, <<>> >>},
        q \in {None, Some(-1), Some(0)}}

\* productAppService.CreateProduct
AddProduct ==
    /\ \E req \in CatalogueCreates :
         \E res \in {AppCreateProduct(ProductStore, req)} :
            /\ Len(res.st.rows) <= MaxProducts + 1
            /\ products' = res.st.rows
            /\ pcache' = res.st.cache
            /\ plists' = HeapKeep(res.st.lists, Range(res.st.cache))
            /\ last' = Call("createProduct", req, Nil, "", res.err,
                            IF res.err = Ok THEN <<res.p>> ELSE NoOrder,
                            Quantities(products))
    /\ UNCHANGED <<users, orders, ucache, ocache, olists, proc, agg>>

\* productAppService.UpdateProduct
ChangeProduct ==
    /\ \E req \in CatalogueUpdates :
         \E res \in {StorageUpdateProduct(ProductStore, req)} :
            /\ products' = res.st.rows
            /\ pcache' = res.st.cache
            /\ plists' = HeapKeep(res.st.lists, Range(res.st.cache))
            /\ last' = Call("updateProduct", req, req.id, "", res.err,
                            IF res.err = Ok THEN <<res.st.lists[res.ref][1]>>
                            ELSE NoOrder,
                            Quantities(products))
    /\ UNCHANGED <<users, orders, ucache, ocache, olists, proc, agg>>

NextCatalogue ==
    \/ AddProduct
    \/ ChangeProduct

SpecCatalogue == Fresh(StoreRows, NoCall) /\ [][NextCatalogue]_vars

\* Order placement on a database that may fail: at the UPDATE of the k-th
\* product reserved, or at a step of the order's transaction
FullRows == [id \in 1..MaxProducts |-> [StoreRows[id] EXCEPT !.q = MaxInit]]

\* the record of the call c with the failures it met and the order of its
\* reserve loop
Faulty(c, k, failAt, ord) ==
    [op |-> c.op, req |-> c.req, id |-> c.id, status |-> c.status,
     err |-> c.err, ret |-> c.ret, pre |-> c.pre,
     failUpdate |-> k, failAt |-> failAt, ord |-> ord]

InitFailingOrder ==
    Fresh(FullRows, Faulty(Call("init", NoRequest, Nil, "", Ok, NoOrder,
                                Quantities(FullRows)), 0, 0, <<>>))

CreateOrderFailing ==
    /\ \E req \in OrderRequests :
         \E checkOrd, reserveOrd \in Orderings(ProductIdsOf(req.items)) :
           \E k \in 0..Len(reserveOrd) :
             \E failAt \in IF k = 0 THEN 0..Len(req.items) + 3 ELSE {0} :
               \E res \in {AppCreateOrderFailing(World, req, checkOrd, reserveOrd,
                                                  k, failAt)} :
                 /\ Len(res.w.os.rows) <= MaxOrders
                 /\ Commit(res.w)
                 /\ last' = Faulty(Call("createOrder", req, Nil, "", res.err,
                                        res.ret, Quantities(products)),
                                   k, failAt, reserveOrd)
                 /\ UNCHANGED <<proc, agg>>
    /\ CacheRoom(MaxCache)'

NextFailingOrder == CreateOrderFailing

SpecFailingOrder == InitFailingOrder /\ [][NextFailingOrder]_vars

\* Cancellation on a database that may fail: at the UPDATE of the k-th product
\* restored, or at the UPDATE of the order
CancelOrderFailing ==
    /\ \E id \in OrderIdInputs :
         \E ord \in Orderings(1..MaxProducts) :
           \E k \in 0..MaxProducts, failStatus \in BOOLEAN :
             \E res \in {AppCancelOrderFailing(World, id, ord, k, failStatus)} :
               /\ \A i \in DOMAIN res.w.ps.rows : res.w.ps.rows[i].q <= MaxStock
               /\ Commit(res.w)
               /\ last' = Faulty(Call("cancelOrder", NoRequest, id, "", res.err,
                                      res.ret, Quantities(products)),
                                 k, IF failStatus THEN 1 ELSE 0, ord)
               /\ UNCHANGED <<proc, agg>>
    /\ CacheRoom(MaxCache)'

\* orderAppService.CreateOrder, no statement failing, for one unit of each of
\* the first n products
CreateOrderToCancel ==
    /\ \E n \in 1..MaxProducts :
         \E req \in {[userId |-> 1,
                       items |-> [i \in 1..n |-> [productId |-> i, quantity |-> 1]]]} :
           \E ord \in {[i \in 1..n |-> i]} :
             \E res \in {AppCreateOrderFailing(World, req, ord, ord, 0, 0)} :
               /\ Len(res.w.os.rows) <= MaxOrders
               /\ Commit(res.w)
               /\ last' = Faulty(Call("createOrder", req, Nil, "", res.err,
                                      res.ret, Quantities(products)),
                                 0, 0, ord)
               /\ UNCHANGED <<proc, agg>>
    /\ CacheRoom(MaxCache)'

NextFailingCancel ==
    \/ CreateOrderToCancel
    \/ CancelOrderFailing

SpecFailingCancel == InitFailingOrder /\ [][NextFailingCancel]_vars

\* The user list with time advancing.  The clock counts ticks of half the TTL;
\* an entry of the cache is the record [value, expiresAt, storedAt] and the
\* record of the last call holds the clock (now), the time of the call (at)
\* and, for a list call, whether it was served by the cache (hit) and when the
\* entry it returned was stored (storedAt).
Ttl == 2            \* time.Hour, in ticks
MaxTime == 5        \* the clock stops there

\* Item.isExpired: the expiry of the item is before now
IsExpired(item, now) == item.expiresAt < now

\* Cache.DeleteExpired()
CacheDeleteExpired(cache, now) ==
    [k \in {k \in DOMAIN cache : ~IsExpired(cache[k], now)} |-> cache[k]]

\* Cache.Get(key) on an item present: touch on hit is not disabled by
\* NewUserStorage, so the expiry of the item moves to one TTL from now
CacheGetTouch(cache, key, now) == [cache EXCEPT ![key].expiresAt = now + Ttl]

\* Cache.Set(key, value, DefaultTTL) at time now
CacheSetAt(cache, key, value, now) ==
    CacheSet(cache, key, [value |-> value, expiresAt |-> now + Ttl, storedAt |-> now])

\* userStorage.Users at time now: [cache, list, hit, storedAt]
StorageUsersAt(rows, cache, req, now) ==
    Bind(CacheDeleteExpired(cache, now), LAMBDA swept :
    Bind(RequestValidate(req), LAMBDA r :
    Bind(UsersCacheKey(r), LAMBDA key :
        IF CacheHas(swept, key) /\ ~IsExpired(swept[key], now)
        THEN [cache |-> CacheGetTouch(swept, key, now), list |-> swept[key].value,
              hit |-> TRUE, storedAt |-> swept[key].storedAt]
        ELSE Bind(QueryUsers(rows, r), LAMBDA list :
                 [cache |-> CacheSetAt(swept, key, list, now), list |-> list,
                  hit |-> FALSE, storedAt |-> now]))))

\* the record of a call made at time at, the clock being at now
Timed(op, req, ret, hit, storedAt, at, now) ==
    [op |-> op, req |-> req, ret |-> ret, hit |-> hit, storedAt |-> storedAt,
     at |-> at, now |-> now]

InitTimed == Fresh(StoreRows, Timed("init", NoRequest, <<>>, FALSE, 0, 0, 0))

\* the clock advances
Tick ==
    /\ last.now < MaxTime
    /\ last' = [last EXCEPT !.now = @ + 1]
    /\ UNCHANGED <<users, products, orders, ucache, pcache, ocache, plists,
                   olists, proc, agg>>

\* userStorage.Users
UsersAt ==
    /\ \E req \in {UsersRequest(<<>>, 0), UsersRequest(<<2>>, 1)} :
         \E got \in {StorageUsersAt(users, ucache, req, last.now)} :
            /\ ucache' = got.cache
            /\ last' = Timed("users", req, got.list, got.hit, got.storedAt,
                             last.now, last.now)
    /\ UNCHANGED <<users, products, orders, pcache, ocache, plists, olists, proc, agg>>

\* userStorage.CreateUser
CreateUserAt ==
    /\ \E user \in CreateUserInputs :
         \E res \in {StorageCreateUser(users, ucache, user)} :
            /\ Cardinality(res.rows) <= 2
            /\ users' = res.rows
            /\ ucache' = res.cache
            /\ last' = Timed("createUser", user, <<>>, FALSE, 0, last.now, last.now)
    /\ UNCHANGED <<products, orders, pcache, ocache, plists, olists, proc, agg>>

NextTimed ==
    \/ Tick
    \/ UsersAt
    \/ CreateUserAt

SpecTimed == InitTimed /\ [][NextTimed]_vars

\* Cancellation of orders that name a product the store does not hold: the
\* orders are persisted by the order storage, which does not look at the
\* products
Absent == MaxProducts + 1

OrphanOrderInputs ==
    {[id |-> Nil, userId |-> 1, status |-> OrderStatusPending, items |-> items] :
        items \in {<<ItemOf(Absent)>>, <<ItemOf(1), ItemOf(Absent)>>,
                   <<ItemOf(Absent), ItemOf(2), ItemOf(Absent)>>, <<ItemOf(1)>>}}

\* orderStorage.CreateOrder
StoreOrphanOrder ==
    /\ \E order \in OrphanOrderInputs :
         \E res \in {StorageCreateOrder(OrderStore, order)} :
            /\ Len(res.st.rows) <= MaxOrders + 1
            /\ orders' = res.st.rows
            /\ ocache' = res.st.cache
            /\ olists' = HeapKeep(res.st.lists, Range(res.st.cache))
            /\ last' = Call("storeOrder", order, Nil, "", res.err,
                            IF res.err = Ok THEN <<res.o>> ELSE NoOrder,
                            Quantities(products))
    /\ UNCHANGED <<users, products, ucache, pcache, plists, proc, agg>>

\* orderAppService.CancelOrder
CancelOrphanOrder ==
    /\ \E id \in 0..MaxOrders + 1 :
         \E ord \in Orderings(1..Absent) :
           \E res \in {AppCancelOrder(World, id, ord)} :
              /\ Commit(res.w)
              /\ last' = Call("cancelOrder", NoRequest, id, "", res.err, res.ret,
                              Quantities(products))
              /\ UNCHANGED <<proc, agg>>
    /\ CacheRoom(MaxCache)'

NextOrphan ==
    \/ StoreOrphanOrder
    \/ CancelOrphanOrder

SpecOrphan == Fresh(StoreRows, NoCall) /\ [][NextOrphan]_vars

\* The three storages with room in every cache: list calls fill the caches,
\* creates and updates clear them.  The record of a call holds its operation,
\* its input, its error and the number of entries each cache held when it was
\* made.
Had(c, prev) ==
    [op |-> c.op, req |-> c.req, id |-> c.id, status |-> c.status,
     err |-> c.err,
     had |-> [users |-> Cardinality(DOMAIN ucache),
              products |-> Cardinality(DOMAIN pcache),
              orders |-> Cardinality(DOMAIN ocache)]]

\* productStorage.Products
ProductsFill ==
    ProductsCall({ProductsRequest(<<>>, 0), ProductsRequest(<<1>>, 1)}, Had)

\* userStorage.Users
UsersFill == UsersCall({UsersRequest(<<>>, 0)}, Had)

\* orderStorage.Orders
OrdersFill == OrdersCall({OrdersRequest(<<>>, 0)}, Had)

\* productStorage.CreateProduct
CreateProductClear ==
    /\ \E product \in [id : {Nil}, desc : {<<"c">>, <<" ">>}, tags : {<<>>}, q : {1}] :
         \E res \in {StorageCreateProduct(ProductStore, product)} :
            /\ Len(res.st.rows) <= MaxProducts + 1
            /\ products' = res.st.rows
            /\ pcache' = res.st.cache
            /\ plists' = HeapKeep(res.st.lists, Range(res.st.cache))
            /\ last' = Had(Call("createProduct", NoRequest, Nil, "", res.err, NoOrder,
                                Quantities(products)), last)
    /\ UNCHANGED <<users, orders, ucache, ocache, olists, proc, agg>>

\* productStorage.UpdateProduct
UpdateProductClear ==
    /\ \E req \in [id : {1}, desc : {None}, tags : {<<>>}, q : {Some(0), Some(-1)}] :
         \E res \in {StorageUpdateProduct(ProductStore, req)} :
            /\ products' = res.st.rows
            /\ pcache' = res.st.cache
            /\ plists' = HeapKeep(res.st.lists, Range(res.st.cache))
            /\ last' = Had(Call("updateProduct", NoRequest, req.id, "", res.err, NoOrder,
                                Quantities(products)), last)
    /\ UNCHANGED <<users, orders, ucache, ocache, olists, proc, agg>>

\* userStorage.CreateUser
CreateUserClear ==
    /\ \E user \in CreateUserInputs :
         \E res \in {StorageCreateUser(users, ucache, user)} :
            /\ Cardinality(res.rows) <= 2
            /\ users' = res.rows
            /\ ucache' = res.cache
            /\ last' = Had(Call("createUser", NoRequest, Nil, "", res.err, NoOrder,
                                Quantities(products)), last)
    /\ UNCHANGED <<products, orders, pcache, ocache, plists, olists, proc, agg>>

\* orderStorage.CreateOrder
StoreOrderClear ==
    /\ \E order \in StoreOrderInputs :
         \E res \in {StorageCreateOrder(OrderStore, order)} :
            /\ Len(res.st.rows) <= MaxOrders
            /\ orders' = res.st.rows
            /\ ocache' = res.st.cache
            /\ olists' = HeapKeep(res.st.lists, Range(res.st.cache))
            /\ last' = Had(Call("storeOrder", NoRequest, Nil, "", res.err, NoOrder,
                                Quantities(products)), last)
    /\ UNCHANGED <<users, products, ucache, pcache, plists, proc, agg>>

\* orderStorage.UpdateOrder
UpdateOrderClear ==
    /\ \E id \in 1..MaxOrders + 1, st \in {OrderStatusCancelled, "shipped"} :
         \E res \in {StorageUpdateOrder(OrderStore, [id |-> id, status |-> st])} :
            /\ orders' = res.st.rows
            /\ ocache' = res.st.cache
            /\ olists' = HeapKeep(res.st.lists, Range(res.st.cache))
            /\ last' = Had(Call("updateOrder", NoRequest, id, st, res.err, NoOrder,
                                Quantities(products)), last)
    /\ UNCHANGED <<users, products, ucache, pcache, plists, proc, agg>>

NextCaches ==
    \/ ProductsFill
    \/ UsersFill
    \/ OrdersFill
    \/ CreateProductClear
    \/ UpdateProductClear
    \/ CreateUserClear
    \/ StoreOrderClear
    \/ UpdateOrderClear

SpecCaches == Fresh(StoreRows, Had(NoCall, NoCall)) /\ [][NextCaches]_vars

\* The write boundary of the orders: orderStorage.CreateOrder is handed orders
\* that are valid and orders that fail each test of Order.Validate and of
\* OrderItem.Validate
BoundaryOrderInputs ==
    {[id |-> Nil, userId |-> u, status |-> OrderStatusPending, items |-> items] :
        u \in {Nil, 1},
        items \in {<<>>, <<ItemOf(1)>>, <<ItemOf(1), ItemOf(2)>>,
                   <<ItemOf(1), [ItemOf(2) EXCEPT !.productId = Nil]>>,
                   <<[ItemOf(1) EXCEPT !.quantity = 0]>>,
                   <<ItemOf(1), [ItemOf(2) EXCEPT !.quantity = -1]>>,
                   <<ItemOf(2), [ItemOf(1) EXCEPT !.snapshot.desc = <<>>]>>}}

\* orderStorage.CreateOrder
StoreOrderAtBoundary ==
    /\ \E order \in BoundaryOrderInputs :
         \E res \in {StorageCreateOrder(OrderStore, order)} :
            /\ Len(res.st.rows) <= MaxOrders + 1
            /\ orders' = res.st.rows
            /\ ocache' = res.st.cache
            /\ olists' = HeapKeep(res.st.lists, Range(res.st.cache))
            /\ last' = Sequel(Call("storeOrder", order, Nil, "", res.err,
                                   IF res.err = Ok THEN <<res.o>> ELSE NoOrder,
                                   Quantities(products)), last)
    /\ UNCHANGED <<users, products, ucache, pcache, plists, proc, agg>>

NextBoundary ==
    \/ StoreOrderAtBoundary
    \/ StoreOrderStatus
    \/ Orders

SpecBoundary == InitStore /\ [][NextBoundary]_vars

\* Cache keys of requests whose offset does not fit 32 bits.  The platform
\* integer (int, 64 bits) is the record [hi, lo] of its high and its low 32-bit
\* word, hi signed: its value is hi * 2^32 + lo.
MaxHigh == 2        \* largest high word of an offset

\* uint32(n) of an int n: the low word
Uint32(n) == n.lo

\* Validate on a request with such an offset: a negative offset becomes 0
RequestValidateWide(r) ==
    LET l1 == IF r.limit <= 0 THEN DefaultLimit ELSE r.limit
        l2 == IF l1 > LimitCap THEN LimitCap ELSE l1
        o1 == IF r.offset.hi < 0 THEN [hi |-> 0, lo |-> 0] ELSE r.offset
    IN  [r EXCEPT !.limit = l2, !.offset = o1]

\* the request as AppendUint32(buf, uint32(r.Offset)) reads it
Narrowed(r) == [r EXCEPT !.offset = Uint32(@)]

WideOffsets == [hi : 0..MaxHigh, lo : {0, 1}]

\* normalised requests: a limit within 1..LimitCap, an offset >= 0
WideRequests(kind) ==
    CASE kind = "products" ->
           [ids : {<<>>}, tags : {<<>>}, available : {None},
            limit : {1, DefaultLimit, LimitCap}, offset : WideOffsets]
      [] kind = "users" ->
           [ids : {<<>>}, limit : {1, DefaultLimit, LimitCap}, offset : WideOffsets]
      [] kind = "orders" ->
           [ids : {<<>>}, userIds : {<<>>}, statuses : {<<>>},
            limit : {1, DefaultLimit, LimitCap}, offset : WideOffsets]

InitWide ==
    \E kind \in {"products", "users", "orders"} :
      \E a, b \in WideRequests(kind) :
        Fresh(StoreRows,
              Call("compare", [kind |-> kind, a |-> a, b |-> b], Nil, "", Ok,
                   NoOrder, <<>>))

\* the keys of the two requests of last, computed by Key after Validate
WideKeysCall(Key(_)) ==
    /\ last.op = "compare"
    /\ last' = [last EXCEPT !.op = "keys",
                            !.ret = <<Key(Narrowed(RequestValidateWide(last.req.a))),
                                      Key(Narrowed(RequestValidateWide(last.req.b)))>>]
    /\ UNCHANGED <<users, products, orders, ucache, pcache, ocache, plists,
                   olists, proc, agg>>

ProductsWideKeys == last.req.kind = "products" /\ WideKeysCall(ProductsCacheKey)
UsersWideKeys == last.req.kind = "users" /\ WideKeysCall(UsersCacheKey)
OrdersWideKeys == last.req.kind = "orders" /\ WideKeysCall(OrdersCacheKey)

NextWide == ProductsWideKeys \/ UsersWideKeys \/ OrdersWideKeys

SpecWide == InitWide /\ [][NextWide]_vars

\* List calls alone, with limits and offsets below, at and above what Validate
\* keeps
PageLimits == {0, DefaultLimit, LimitCap, LimitCap + 1}
PageOffsets == {-1, 0}

PagedProductRequests ==
    [ids : {<<>>}, tags : {<<>>}, available : {None}, limit : PageLimits,
     offset : PageOffsets]
PagedUserRequests == [ids : {<<>>}, limit : PageLimits, offset : PageOffsets]
PagedOrderRequests ==
    [ids : {<<>>}, userIds : {<<>>}, statuses : {<<>>}, limit : PageLimits,
     offset : PageOffsets]

ProductsPaged == ProductsCall(PagedProductRequests, Repeat) /\ StoreRoom(MaxCache + 1)'
UsersPaged == UsersCall(PagedUserRequests, Repeat) /\ StoreRoom(MaxCache + 1)'
OrdersPaged == OrdersCall(PagedOrderRequests, Repeat) /\ StoreRoom(MaxCache + 1)'

NextPaged == ProductsPaged \/ UsersPaged \/ OrdersPaged

SpecPaged == Fresh(StoreRows, Repeat(NoCall, NoCall)) /\ [][NextPaged]_vars

-----------------------------------------------------------------------------
(* The cache keys alone: two requests of one kind are drawn at the start and *)
(* the list call's Validate and CacheKey are applied to both                 *)

\* tag lists, two of them the same characters cut at different places
KeyTags ==
    {<<>>, << <<"a", "b", "c">> >>, << <<"a", "b">>, <<"c">> >>,
     << <<"a">>, <<"b", "c">> >>}
KeyIds == {<<>>, <<1>>, <<1, 2>>}
KeyStatuses ==
    {<<>>, <<OrderStatusPending>>, <<OrderStatusCancelled>>,
     <<OrderStatusPending, OrderStatusCancelled>>}

KeyRequests(kind) ==
    CASE kind = "products" ->
           [ids : KeyIds, tags : KeyTags, available : {None, Some(TRUE), Some(FALSE)},
            limit : {0, 1}, offset : {0, 1}]
      [] kind = "users" -> [ids : KeyIds, limit : {0, 1}, offset : {0, 1}]
      [] kind = "orders" ->
           [ids : {<<>>, <<1>>}, userIds : {<<>>, <<1>>}, statuses : KeyStatuses,
            limit : {0, 1}, offset : {0, 1}]

InitKeys ==
    \E kind \in {"products", "users", "orders"} :
      \E a, b \in KeyRequests(kind) :
        Fresh(StoreRows,
              Call("compare", [kind |-> kind, a |-> a, b |-> b], Nil, "", Ok,
                   NoOrder, <<>>))

\* the keys of the two requests of last, computed by Key after Validate
KeysCall(Key(_)) ==
    /\ last.op = "compare"
    /\ last' = [last EXCEPT !.op = "keys",
                            !.ret = <<Key(RequestValidate(last.req.a)),
                                      Key(RequestValidate(last.req.b))>>]
    /\ UNCHANGED <<users, products, orders, ucache, pcache, ocache, plists,
                   olists, proc, agg>>

ProductsKeys == last.req.kind = "products" /\ KeysCall(ProductsCacheKey)
UsersKeys == last.req.kind = "users" /\ KeysCall(UsersCacheKey)
OrdersKeys == last.req.kind = "orders" /\ KeysCall(OrdersCacheKey)

NextKeys == ProductsKeys \/ UsersKeys \/ OrdersKeys

SpecKeys == InitKeys /\ [][NextKeys]_vars

-----------------------------------------------------------------------------
(* Validate alone: a request is drawn at the start and Validate is called on *)
(* it, and once more on what the first call left                             *)

NormalLimits == {-1, 0, 1, DefaultLimit, LimitCap, LimitCap + 1}
NormalOffsets == {-1, 0, 1}

NormalRequests(kind) ==
    CASE kind = "products" ->
           [ids : {<<>>, <<1>>}, tags : {<<>>, << <<"c">> >>},
            available : {None, Some(TRUE)}, limit : NormalLimits,
            offset : NormalOffsets]
      [] kind = "users" -> [ids : {<<>>, <<1>>}, limit : NormalLimits,
                            offset : NormalOffsets]
      [] kind = "orders" ->
           [ids : {<<>>}, userIds : {<<>>, <<1>>},
            statuses : {<<>>, <<OrderStatusPending>>}, limit : NormalLimits,
            offset : NormalOffsets]

InitNormal ==
    \E kind \in {"products", "users", "orders"} :
      \E r \in NormalRequests(kind) :
        Fresh(StoreRows,
              Call("request", [kind |-> kind, r |-> r], Nil, "", Ok, <<>>, <<>>))

\* Validate on the request as it stands: ret holds the request after each call
ValidateCall ==
    /\ Len(last.ret) < 2
    /\ last' = [last EXCEPT
                  !.op = "validate",
                  !.ret = Append(@, RequestValidate(IF @ = <<>> THEN last.req.r
                                                    ELSE @[Len(@)]))]
    /\ UNCHANGED <<users, products, orders, ucache, pcache, ocache, plists,
                   olists, proc, agg>>

GetUsersRequestValidate == last.req.kind = "users" /\ ValidateCall
GetProductsRequestValidate == last.req.kind = "products" /\ ValidateCall
GetOrdersRequestValidate == last.req.kind = "orders" /\ ValidateCall

NextNormal ==
    \/ GetUsersRequestValidate
    \/ GetProductsRequestValidate
    \/ GetOrdersRequestValidate

SpecNormal == InitNormal /\ [][NextNormal]_vars

-----------------------------------------------------------------------------
(* The aggregates alone: the methods of domain.Order and domain.Product *)

\* the aggregates after a method that left the order o and the product p
Called(op, arg, err, o, p) ==
    agg' = Aggregates(op, arg, err, o, p,
                      [order |-> agg.order, product |-> agg.product,
                       op |-> agg.op, arg |-> agg.arg, err |-> agg.err])

\* an Order and a Product are built from a row
LoadAggregates ==
    /\ \E st \in Statuses, q \in 0..MaxStock :
         Called("new", 0, Ok, NewOrder(st), NewProduct(q))
    /\ UNCHANGED <<users, products, orders, ucache, pcache, ocache, plists,
                   olists, proc, last>>

OrderConfirm ==
    /\ \E r \in {Confirm(agg.order)} : Called("Confirm", 0, r.err, r.o, agg.product)
    /\ UNCHANGED <<users, products, orders, ucache, pcache, ocache, plists,
                   olists, proc, last>>

OrderComplete ==
    /\ \E r \in {Complete(agg.order)} : Called("Complete", 0, r.err, r.o, agg.product)
    /\ UNCHANGED <<users, products, orders, ucache, pcache, ocache, plists,
                   olists, proc, last>>

OrderCancel ==
    /\ \E r \in {Cancel(agg.order)} : Called("Cancel", 0, r.err, r.o, agg.product)
    /\ UNCHANGED <<users, products, orders, ucache, pcache, ocache, plists,
                   olists, proc, last>>

ProductReserveQuantity ==
    /\ \E n \in -1..MaxQty + 1 :
         \E r \in {ReserveQuantity(agg.product, n)} :
            Called("ReserveQuantity", n, r.err, agg.order, r.p)
    /\ UNCHANGED <<users, products, orders, ucache, pcache, ocache, plists,
                   olists, proc, last>>

ProductRestoreQuantity ==
    /\ \E n \in -1..MaxQty + 1 :
         \E r \in {RestoreQuantity(agg.product, n)} :
            /\ r.p.q <= MaxStock
            /\ Called("RestoreQuantity", n, r.err, agg.order, r.p)
    /\ UNCHANGED <<users, products, orders, ucache, pcache, ocache, plists,
                   olists, proc, last>>

NextDomain ==
    \/ LoadAggregates
    \/ OrderConfirm
    \/ OrderComplete
    \/ OrderCancel
    \/ ProductReserveQuantity
    \/ ProductRestoreQuantity

SpecDomain == Init /\ [][NextDomain]_vars

-----------------------------------------------------------------------------
(* Interleaved handlers: NumProcs calls of orderAppService.CreateOrder, each *)
(* in its own goroutine, one statement (or one call into the cache or the    *)
(* database) at a time.  The Product objects of a list result are shared by  *)
(* the cache and by every handler the list was returned to; they are read    *)
(* and written without synchronisation.                                      *)

Procs == 1..NumProcs

\* the requests of the interleaved handlers: one line each
ConcRequests == {r \in OrderRequests : Len(r.items) = 1}

\* the lists a cache entry or a handler refers to
LiveRefs(cache, procs) ==
    Range(cache) \cup {procs[self].got : self \in Procs}
                 \cup {procs[self].ref : self \in Procs}

\* the handler self returns err
Return(self, err) ==
    [proc EXCEPT ![self] = Handler("done", @.req, <<>>, <<>>, NoListRequest, "",
                                   <<>>, Nil, Nil, 0, err)]

\* the product the reserve loop of self is at, and its Product object
Current(self) == Head(proc[self].todo)
CurrentIndex(self) == IndexIn(plists[proc[self].ref], Current(self))
CurrentProduct(self) == plists[proc[self].ref][CurrentIndex(self)]

\* CreateOrder up to "Get all products from request": the request is
\* validated and the user looked up
CoStart(self) ==
    /\ proc[self].pc = "idle"
    /\ \E req \in ConcRequests :
         \E checkOrd, reserveOrd \in Orderings(ProductIdsOf(req.items)) :
           IF CreateOrderRequestValidate(req) # Ok
           THEN /\ proc' = [Return(self, CreateOrderRequestValidate(req))
                               EXCEPT ![self].req = req]
                /\ UNCHANGED ucache
           ELSE \E u \in {StorageUsers(users, ucache, UsersRequest(<<req.userId>>, 1))} :
                  /\ ucache' = u.cache
                  /\ proc' =
                       IF Len(u.list) = 0
                       THEN [Return(self, ErrUserNotFound) EXCEPT ![self].req = req]
                       ELSE [proc EXCEPT ![self] =
                               Handler("get", req, checkOrd, reserveOrd,
                                       ProductsRequest(
                                           [i \in DOMAIN req.items |->
                                               req.items[i].productId], 0),
                                       "check", <<>>, Nil, Nil, 0, Ok)]
    /\ UNCHANGED <<users, products, orders, pcache, ocache, plists, olists,
                   last, agg>>

\* productStorage.Products: the cache lookup
ProductsGet(self) ==
    /\ proc[self].pc = "get"
    /\ \E key \in {ProductsCacheKey(RequestValidate(proc[self].lreq))} :
         proc' = IF CacheHas(pcache, key)
                 THEN [proc EXCEPT ![self].pc = proc[self].back, ![self].got = pcache[key]]
                 ELSE [proc EXCEPT ![self].pc = "query"]
    /\ plists' = HeapKeep(plists, LiveRefs(pcache, proc'))
    /\ UNCHANGED <<users, products, orders, ucache, pcache, ocache, olists,
                   last, agg>>

\* productStorage.Products: the SELECT
ProductsQuery(self) ==
    /\ proc[self].pc = "query"
    /\ proc' = [proc EXCEPT ![self].pc = "set",
                            ![self].list =
                               QueryProducts(products, RequestValidate(proc[self].lreq))]
    /\ UNCHANGED <<users, products, orders, ucache, pcache, ocache, plists,
                   olists, last, agg>>

\* productStorage.Products: the list read is stored in the cache and returned
ProductsSet(self) ==
    /\ proc[self].pc = "set"
    /\ \E ref \in {NewRef(plists)} :
         /\ pcache' = CacheSet(pcache,
                               ProductsCacheKey(RequestValidate(proc[self].lreq)), ref)
         /\ proc' = [proc EXCEPT ![self].pc = proc[self].back, ![self].got = ref,
                                 ![self].list = <<>>]
         /\ plists' = HeapKeep(HeapPut(plists, ref, proc[self].list),
                               LiveRefs(pcache', proc'))
    /\ UNCHANGED <<users, products, orders, ucache, ocache, olists, last, agg>>

\* one turn of the loop "Check if all products exist and have sufficient
\* quantity"
CoCheck(self) ==
    /\ proc[self].pc = "check"
    /\ \E list \in {plists[proc[self].got]}, pid \in {Head(proc[self].ctodo)} :
         proc' =
           IF ~InList(list, pid) THEN Return(self, ErrProductNotFound)
           ELSE IF list[IndexIn(list, pid)].q < QuantityFor(proc[self].req.items, pid)
           THEN Return(self, ErrInsufficientStock)
           ELSE [proc EXCEPT ![self].ref = proc[self].got,
                             ![self].ctodo = Tail(@),
                             ![self].pc = IF Tail(proc[self].ctodo) = <<>>
                                          THEN "reserve" ELSE "check"]
    /\ plists' = HeapKeep(plists, LiveRefs(pcache, proc'))
    /\ UNCHANGED <<users, products, orders, ucache, pcache, ocache, olists,
                   last, agg>>

\* Product.ReserveQuantity: the two tests
CoReserve(self) ==
    /\ proc[self].pc = "reserve"
    /\ \E n \in {QuantityFor(proc[self].req.items, Current(self))} :
         proc' =
           IF n <= 0 THEN Return(self, ErrInvalidQuantity)
           ELSE IF CurrentProduct(self).q < n THEN Return(self, ErrInsufficientStock)
           ELSE [proc EXCEPT ![self].pc = "load"]
    /\ plists' = HeapKeep(plists, LiveRefs(pcache, proc'))
    /\ UNCHANGED <<users, products, orders, ucache, pcache, ocache, olists,
                   last, agg>>

\* Product.ReserveQuantity: p.Quantity -= quantity reads p.Quantity
CoLoad(self) ==
    /\ proc[self].pc = "load"
    /\ proc' = [proc EXCEPT ![self].pc = "store",
                            ![self].reg = CurrentProduct(self).q]
    /\ UNCHANGED <<users, products, orders, ucache, pcache, ocache, plists,
                   olists, last, agg>>

\* Product.ReserveQuantity: p.Quantity -= quantity writes p.Quantity
CoStore(self) ==
    /\ proc[self].pc = "store"
    /\ plists' = HeapWrite(plists, proc[self].ref, CurrentIndex(self),
                           [CurrentProduct(self) EXCEPT
                              !.q = proc[self].reg
                                      - QuantityFor(proc[self].req.items, Current(self))])
    /\ proc' = [proc EXCEPT ![self].pc = "deleteall", ![self].reg = 0]
    /\ UNCHANGED <<users, products, orders, ucache, pcache, ocache, olists,
                   last, agg>>

\* productStorage.UpdateProduct: s.cache.DeleteAll()
UpDeleteAll(self) ==
    /\ proc[self].pc = "deleteall"
    /\ pcache' = CacheDeleteAll(pcache)
    /\ proc' = [proc EXCEPT ![self].pc = "validate"]
    /\ plists' = HeapKeep(plists, LiveRefs(pcache', proc'))
    /\ UNCHANGED <<users, products, orders, ucache, ocache, olists, last, agg>>

\* productStorage.UpdateProduct: req.Validate() reads the quantity through
\* the pointer into the Product object
UpValidate(self) ==
    /\ proc[self].pc = "validate"
    /\ \E err \in {UpdateProductRequestValidate(QuantityUpdate(CurrentProduct(self)))} :
         proc' = IF err # Ok THEN Return(self, err)
                 ELSE [proc EXCEPT ![self].pc = "exec"]
    /\ plists' = HeapKeep(plists, LiveRefs(pcache, proc'))
    /\ UNCHANGED <<users, products, orders, ucache, pcache, ocache, olists,
                   last, agg>>

\* productStorage.UpdateProduct: the UPDATE is built, reading the quantity
\* through the pointer again, and executed
UpExec(self) ==
    /\ proc[self].pc = "exec"
    /\ products' = ExecUpdateProduct(products, QuantityUpdate(CurrentProduct(self)))
    /\ proc' = [proc EXCEPT ![self].pc = "get", ![self].back = "updated",
                            ![self].lreq = ProductsRequest(<<Current(self)>>, 1)]
    /\ UNCHANGED <<users, orders, ucache, pcache, ocache, plists, olists,
                   last, agg>>

\* productStorage.UpdateProduct returns the product read back, and the loop
\* "Reserve products" goes on
UpReturn(self) ==
    /\ proc[self].pc = "updated"
    /\ proc' =
         IF Len(plists[proc[self].got]) = 0 THEN Return(self, ErrProductNotFound)
         ELSE [proc EXCEPT ![self].todo = Tail(@), ![self].got = Nil,
                           ![self].lreq = NoListRequest, ![self].back = "",
                           ![self].pc = IF Tail(proc[self].todo) = <<>>
                                        THEN "insert" ELSE "reserve"]
    /\ plists' = HeapKeep(plists, LiveRefs(pcache, proc'))
    /\ UNCHANGED <<users, products, orders, ucache, pcache, ocache, olists,
                   last, agg>>

\* the order is built and orderStorage.CreateOrder inserts it in one
\* transaction
CoInsert(self) ==
    /\ proc[self].pc = "insert"
    /\ \E ins \in {StorageCreateOrder(
                       [rows |-> orders, cache |-> ocache, lists |-> olists],
                       BuildOrder(proc[self].req, plists[proc[self].ref]))} :
         /\ orders' = ins.st.rows
         /\ ocache' = ins.st.cache
         /\ olists' = HeapKeep(ins.st.lists, Range(ins.st.cache))
         /\ proc' = Return(self, ins.err)
    /\ plists' = HeapKeep(plists, LiveRefs(pcache, proc'))
    /\ UNCHANGED <<users, products, ucache, pcache, last, agg>>

NextConc ==
    \E self \in Procs :
        \/ CoStart(self)
        \/ ProductsGet(self)
        \/ ProductsQuery(self)
        \/ ProductsSet(self)
        \/ CoCheck(self)
        \/ CoReserve(self)
        \/ CoLoad(self)
        \/ CoStore(self)
        \/ UpDeleteAll(self)
        \/ UpValidate(self)
        \/ UpExec(self)
        \/ UpReturn(self)
        \/ CoInsert(self)

SpecConc == Init /\ [][NextConc]_vars

-----------------------------------------------------------------------------
(* Interleaved list calls and updates of the product storage: each handler   *)
(* runs productStorage.Products or productStorage.UpdateProduct, one call    *)
(* into the cache or the database at a time, and then serves another request *)

\* the list requests of the interleaved readers: what UpdateProduct reads
\* back, every product, the products in stock
RaceListRequests ==
    {ProductsRequest(<<1>>, 1), ProductsRequest(<<>>, 0),
     [ProductsRequest(<<>>, 0) EXCEPT !.available = Some(TRUE)]}

\* the UpdateProductRequest of the writer self: its product and a quantity
WriteRequest(self) ==
    [id |-> Head(proc[self].todo), desc |-> None, tags |-> <<>>,
     q |-> Some(proc[self].reg)]

\* the handler self is inside UpdateProduct
Writing(self) ==
    \/ proc[self].pc \in {"wdelete", "wexec", "wrote"}
    \/ proc[self].pc \in {"get", "query", "set"} /\ proc[self].back = "wrote"

\* a handler takes a list request
LsStart(self) ==
    /\ proc[self].pc \in {"idle", "done"}
    /\ \E req \in RaceListRequests :
         proc' = [proc EXCEPT ![self] =
                    Handler("get", NoRequest, <<>>, <<>>, req, "listed", <<>>,
                            Nil, Nil, 0, Ok)]
    /\ UNCHANGED <<users, products, orders, ucache, pcache, ocache, plists,
                   olists, last, agg>>

\* productStorage.Products returns the list to the caller
LsReturn(self) ==
    /\ proc[self].pc = "listed"
    /\ proc' = Return(self, Ok)
    /\ plists' = HeapKeep(plists, LiveRefs(pcache, proc'))
    /\ UNCHANGED <<users, products, orders, ucache, pcache, ocache, olists,
                   last, agg>>

\* a handler takes an update of the quantity of a product
WrStart(self) ==
    /\ proc[self].pc \in {"idle", "done"}
    /\ \E pid \in {1}, n \in {0, MaxInit} :
         proc' = [proc EXCEPT ![self] =
                    Handler("wdelete", NoRequest, <<>>, <<pid>>, NoListRequest, "",
                            <<>>, Nil, Nil, n, Ok)]
    /\ UNCHANGED <<users, products, orders, ucache, pcache, ocache, plists,
                   olists, last, agg>>

\* productStorage.UpdateProduct: s.cache.DeleteAll() and req.Validate()
WrDeleteAll(self) ==
    /\ proc[self].pc = "wdelete"
    /\ pcache' = CacheDeleteAll(pcache)
    /\ proc' = IF UpdateProductRequestValidate(WriteRequest(self)) # Ok
               THEN Return(self, UpdateProductRequestValidate(WriteRequest(self)))
               ELSE [proc EXCEPT ![self].pc = "wexec"]
    /\ plists' = HeapKeep(plists, LiveRefs(pcache', proc'))
    /\ UNCHANGED <<users, products, orders, ucache, ocache, olists, last, agg>>

\* productStorage.UpdateProduct: the UPDATE
WrExec(self) ==
    /\ proc[self].pc = "wexec"
    /\ products' = ExecUpdateProduct(products, WriteRequest(self))
    /\ proc' = [proc EXCEPT ![self].pc = "get", ![self].back = "wrote",
                            ![self].lreq = ProductsRequest(<<Head(proc[self].todo)>>, 1)]
    /\ UNCHANGED <<users, orders, ucache, pcache, ocache, plists, olists,
                   last, agg>>

\* productStorage.UpdateProduct returns the product read back: the write is
\* acknowledged
WrReturn(self) ==
    /\ proc[self].pc = "wrote"
    /\ proc' = Return(self, IF Len(plists[proc[self].got]) = 0
                            THEN ErrProductNotFound ELSE Ok)
    /\ plists' = HeapKeep(plists, LiveRefs(pcache, proc'))
    /\ UNCHANGED <<users, products, orders, ucache, pcache, ocache, olists,
                   last, agg>>

NextRace ==
    \E self \in Procs :
        \/ LsStart(self)
        \/ ProductsGet(self)
        \/ ProductsQuery(self)
        \/ ProductsSet(self)
        \/ LsReturn(self)
        \/ WrStart(self)
        \/ WrDeleteAll(self)
        \/ WrExec(self)
        \/ WrReturn(self)

SpecRace == Init /\ [][NextRace]_vars

\* One handler updates and the other lists
NextReadBack ==
    \/ WrStart(1)
    \/ WrDeleteAll(1)
    \/ WrExec(1)
    \/ WrReturn(1)
    \/ \E self \in Procs :
          \/ ProductsGet(self)
          \/ ProductsQuery(self)
          \/ ProductsSet(self)
    \/ LsStart(2)
    \/ LsReturn(2)

SpecReadBack == Init /\ [][NextReadBack]_vars

-----------------------------------------------------------------------------
(* Interleaved cancellations: each handler runs orderAppService.CancelOrder   *)
(* on order 1, one call into a storage at a time.  The Order object of a list *)
(* result is shared by the cache and by every handler the list was returned   *)
(* to.  proc[self].got is the list of orders the handler holds and            *)
(* proc[self].todo the products it has still to restore.                      *)

\* a pending order of one unit of product 1, or of products 1 and 2, has taken
\* its units from the stock; every cache is empty
InitCancelRace ==
    \E qs \in [1..MaxProducts -> 0..1], items \in {<<ItemOf(1)>>, <<ItemOf(1), ItemOf(2)>>} :
      /\ users = {1}
      /\ products = [id \in 1..MaxProducts |-> [StoreRows[id] EXCEPT !.q = qs[id]]]
      /\ orders = <<[userId |-> 1, status |-> OrderStatusPending, items |-> items]>>
      /\ ucache = EmptyCache
      /\ pcache = EmptyCache
      /\ ocache = EmptyCache
      /\ plists = <<>>
      /\ olists = <<>>
      /\ proc = [self \in 1..NumProcs |-> Idle]
      /\ last = Call("init", NoRequest, Nil, "", Ok, NoOrder, qs)
      /\ agg = InitAgg

\* the order lists a cache entry or a handler refers to
LiveOrderRefs(cache, procs) == Range(cache) \cup {procs[self].got : self \in Procs}

\* CancelOrder up to "Restore product quantities": the order is read and
\* CanBeCancelled is tested
CnStart(self) ==
    /\ proc[self].pc = "idle"
    /\ \E ord \in Orderings(1..MaxProducts) :
         \E got \in {StorageOrders(OrderStore, OrdersRequest(<<1>>, 1))} :
            /\ ocache' = got.st.cache
            /\ proc' =
                 IF Len(got.st.lists[got.ref]) = 0
                 THEN Return(self, ErrOrderNotFound)
                 ELSE IF ~CanBeCancelled(got.st.lists[got.ref][1])
                 THEN Return(self, ErrOrderValidation)
                 ELSE [proc EXCEPT
                         ![self].pc = "restore",
                         ![self].got = got.ref,
                         ![self].todo =
                            SelectSeqBy(ord, ProductIdsOf(got.st.lists[got.ref][1].items))]
            /\ olists' = HeapKeep(got.st.lists, LiveOrderRefs(ocache', proc'))
    /\ UNCHANGED <<users, products, orders, ucache, pcache, plists, last, agg>>

\* one turn of the loop "Restore product quantities": the product is read,
\* RestoreQuantity is called on it and UpdateProduct persists it
CnRestore(self) ==
    /\ proc[self].pc = "restore"
    /\ \E rst \in {RestoreProducts(ProductStore, olists[proc[self].got][1].items,
                                    <<Head(proc[self].todo)>>)} :
         /\ \A i \in DOMAIN rst.st.rows : rst.st.rows[i].q <= MaxStock
         /\ products' = rst.st.rows
         /\ pcache' = rst.st.cache
         /\ plists' = HeapKeep(rst.st.lists, Range(rst.st.cache))
         /\ proc' = IF rst.err # Ok THEN Return(self, rst.err)
                    ELSE [proc EXCEPT
                            ![self].todo = Tail(@),
                            ![self].pc = IF Tail(proc[self].todo) = <<>>
                                         THEN "cancel" ELSE "restore"]
    /\ olists' = HeapKeep(olists, LiveOrderRefs(ocache, proc'))
    /\ UNCHANGED <<users, orders, ucache, ocache, last, agg>>

\* "Cancel the order": Order.Cancel on the object held and
\* orderStorage.UpdateOrder
CnCancel(self) ==
    /\ proc[self].pc = "cancel"
    /\ \E res \in {CancelOrderStatus(World, [st |-> OrderStore, ref |-> proc[self].got])} :
         /\ orders' = res.w.os.rows
         /\ ocache' = res.w.os.cache
         /\ proc' = Return(self, res.err)
         /\ olists' = HeapKeep(res.w.os.lists, LiveOrderRefs(ocache', proc'))
    /\ UNCHANGED <<users, products, ucache, pcache, plists, last, agg>>

NextCancelRace ==
    \E self \in Procs :
        \/ CnStart(self)
        \/ CnRestore(self)
        \/ CnCancel(self)

SpecCancelRace == InitCancelRace /\ [][NextCancelRace]_vars

-----------------------------------------------------------------------------
(* Properties.  The vocabulary below is stated on requests and rows alone,   *)
(* independently of the operators that model the handlers.                   *)

\* the sum of the quantities of the lines of items that name the product pid
RECURSIVE LineSum(_, _)
LineSum(items, pid) ==
    IF items = <<>> THEN 0
    ELSE (IF Head(items).productId = pid THEN Head(items).quantity ELSE 0)
           + LineSum(Tail(items), pid)

\* the request has a user id, a line, and on every line a product id and a
\* positive quantity
WellFormed(req) ==
    /\ req.userId # Nil
    /\ Len(req.items) > 0
    /\ \A i \in DOMAIN req.items :
         req.items[i].productId # Nil /\ req.items[i].quantity > 0

\* the request is well-formed, its user exists and so do all its products
Satisfiable(req) ==
    /\ WellFormed(req)
    /\ req.userId \in users
    /\ \A i \in DOMAIN req.items : req.items[i].productId \in DOMAIN products

\* some product of the store is asked for more than it has
Shortfall(req) ==
    \E pid \in DOMAIN products : LineSum(req.items, pid) > products[pid].q

\* the step is a call of op
CallOf(op) == last'.op = op

\* the order the call of this step is about, when it exists
Target == orders[last'.id]
HasTarget == last'.id \in DOMAIN orders

\* C3: createOrder is all-or-nothing on stock: when a request that can
\* otherwise be served (well-formed, user and products exist) asks for more of
\* a product than it has, the call fails with InsufficientStock, no quantity
\* changes and no order is persisted
C3_AllOrNothing ==
    [][(CallOf("createOrder") /\ Satisfiable(last'.req) /\ Shortfall(last'.req))
          => /\ last'.err = ErrInsufficientStock
             /\ products' = products
             /\ orders' = orders]_vars

\* C4: createOrder sums the lines per product: it fails with
\* InsufficientStock only when some sum exceeds the stock, it succeeds only
\* when every sum fits, and a success lowers each product's persisted quantity
\* by exactly the sum of its lines
C4_AggregatesPerProduct ==
    [][CallOf("createOrder")
          => /\ last'.err = ErrInsufficientStock => Shortfall(last'.req)
             /\ last'.err = Ok =>
                  /\ ~Shortfall(last'.req)
                  /\ DOMAIN products' = DOMAIN products
                  /\ \A pid \in DOMAIN products :
                       products'[pid].q =
                         products[pid].q - LineSum(last'.req.items, pid)]_vars

\* C4 happens: an order with two lines for one product was placed and took
\* two units of it
C4_Witness ==
    /\ last.op = "createOrder"
    /\ last.err = Ok
    /\ Len(last.req.items) = 2
    /\ last.req.items[1].productId = last.req.items[2].productId
    /\ products[last.req.items[1].productId].q
         = last.pre[last.req.items[1].productId] - 2

\* C5: cancelOrder on a pending or confirmed order succeeds, raises each
\* product's persisted quantity by the sum of the order's lines for it and
\* sets the persisted status to cancelled
C5_CancelRestores ==
    [][(CallOf("cancelOrder") /\ HasTarget
          /\ Target.status \in {OrderStatusPending, OrderStatusConfirmed})
          => /\ last'.err = Ok
             /\ DOMAIN products' = DOMAIN products
             /\ \A pid \in DOMAIN products :
                  products'[pid].q = products[pid].q + LineSum(Target.items, pid)
             /\ orders'[last'.id].status = OrderStatusCancelled]_vars

\* C5 happens: an order with two lines for one product was cancelled
\* and two units came back
C5_Witness ==
    /\ last.op = "cancelOrder"
    /\ last.err = Ok
    /\ orders[last.id].status = OrderStatusCancelled
    /\ Len(orders[last.id].items) = 2
    /\ orders[last.id].items[1].productId = orders[last.id].items[2].productId
    /\ products[orders[last.id].items[1].productId].q
         = last.pre[orders[last.id].items[1].productId] + 2

\* C6: cancelOrder on a completed or cancelled order fails with
\* OrderValidation and leaves the products and the orders as they were
C6_CancelTerminalFails ==
    [][(CallOf("cancelOrder") /\ HasTarget
          /\ Target.status \in {OrderStatusCompleted, OrderStatusCancelled})
          => /\ last'.err = ErrOrderValidation
             /\ products' = products
             /\ orders' = orders]_vars

\* C6 happens: the cancellation of a completed order was refused
C6_Witness ==
    /\ last.op = "cancelOrder"
    /\ last.err = ErrOrderValidation
    /\ last.id \in DOMAIN orders
    /\ orders[last.id].status = OrderStatusCompleted

\* C7: a successful createOrder immediately followed by cancelOrder of the
\* order it returned puts every quantity back to its value before the
\* createOrder, and a cancelOrder of the same order right after that fails
\* with OrderValidation and changes no quantity
C7_RoundTrip ==
    [][/\ (last.op = "createOrder" /\ last.err = Ok
             /\ CallOf("cancelOrder") /\ last'.id = last.ret[1].id)
          => /\ last'.err = Ok
             /\ Quantities(products') = last.pre
       /\ (last.op = "cancelOrder" /\ last.err = Ok
             /\ CallOf("cancelOrder") /\ last'.id = last.id)
          => /\ last'.err = ErrOrderValidation
             /\ products' = products]_vars

\* C7 happens: an order was cancelled and a second cancellation of it refused
C7_Witness ==
    /\ last.op = "cancelOrder"
    /\ last.err = ErrOrderValidation
    /\ last.id \in DOMAIN orders
    /\ orders[last.id].status = OrderStatusCancelled
    /\ Quantities(products) = last.pre

\* the units of the product pid held by the orders of rows that are not
\* cancelled
Reserved(rows, pid) ==
    SumSeq([i \in DOMAIN rows |->
              IF rows[i].status # OrderStatusCancelled
              THEN LineSum(rows[i].items, pid) ELSE 0])

\* C8: stock conservation: every call leaves, for every product, the
\* persisted quantity plus the units held by the orders that are not
\* cancelled as it was, so that the sum stays at the initial quantity
C8_StockConservation ==
    [][\A pid \in DOMAIN products :
          products'[pid].q + Reserved(orders', pid)
            = products[pid].q + Reserved(orders, pid)]_vars

\* the edges of the status machine
LegalEdge(from, to) ==
    \/ from = OrderStatusPending /\ to = OrderStatusConfirmed
    \/ from = OrderStatusConfirmed /\ to = OrderStatusCompleted
    \/ from = OrderStatusPending /\ to = OrderStatusCancelled
    \/ from = OrderStatusConfirmed /\ to = OrderStatusCancelled

\* C9: Confirm, Complete and Cancel succeed exactly on the legal edges and
\* move the status along them; from any other status they fail with
\* OrderValidation and leave the status as it was
C9_TransitionMethods ==
    \A m \in {<<"Confirm", OrderStatusConfirmed>>,
              <<"Complete", OrderStatusCompleted>>,
              <<"Cancel", OrderStatusCancelled>>} :
       agg.op = m[1] =>
          IF LegalEdge(agg.before.order.status, m[2])
          THEN agg.err = Ok /\ agg.order.status = m[2]
          ELSE /\ agg.err = ErrOrderValidation
               /\ agg.order.status = agg.before.order.status

\* C9 happens: Complete was refused on a cancelled order
C9_Witness ==
    /\ agg.op = "Complete"
    /\ agg.before.order.status = OrderStatusCancelled
    /\ agg.err = ErrOrderValidation
    /\ agg.order.status = OrderStatusCancelled

\* C10: the persisted status of an order changes only along an edge of the
\* status machine: never out of cancelled or completed, never backward
C10_StatusMovesForward ==
    [][\A id \in DOMAIN orders :
          \/ orders'[id].status = orders[id].status
          \/ LegalEdge(orders[id].status, orders'[id].status)]_vars

\* every handler has returned
AllDone == \A self \in Procs : proc[self].pc = "done"

\* the units of the product pid asked for by the handlers that returned no
\* error
Granted(pid) ==
    SumSeq([self \in Procs |->
              IF proc[self].pc = "done" /\ proc[self].err = Ok
              THEN LineSum(proc[self].req.items, pid) ELSE 0])

\* C1: every product's persisted quantity is >= 0, whatever calls have run
\* and however they interleave
C1_QuantityNeverNegative ==
    \A pid \in DOMAIN products : products[pid].q >= 0

\* C2: concurrent createOrder calls serialize: when all have returned, each
\* product's persisted quantity is its initial quantity minus the quantities
\* asked for by the calls that succeeded
C2_ReservationsSerialize ==
    AllDone => \A pid \in DOMAIN products :
                  products[pid].q = last.pre[pid] - Granted(pid)

C12_NoStaleEntryAfterAck ==
    [][\A self \in Procs :
          (/\ proc[self].pc = "get"
           /\ proc[self].back = "listed"
           /\ proc'[self].pc = "listed"
           /\ \A other \in Procs : ~Writing(other))
          => plists'[proc'[self].got]
               = QueryProducts(products, RequestValidate(proc[self].lreq))]_vars

\* the request as the claim normalises it
Normal(r) ==
    [r EXCEPT !.limit = IF @ <= 0 THEN 10 ELSE IF @ > 100 THEN 100 ELSE @,
              !.offset = IF @ < 0 THEN 0 ELSE @]

\* the cache key of a request r of the list operation op
KeyOf(op, r) ==
    CASE op = "products" -> ProductsCacheKey(r)
      [] op = "users" -> UsersCacheKey(r)
      [] op = "orders" -> OrdersCacheKey(r)

\* C13: two list requests that are equal once normalised have the same cache
\* key, and a list call that follows one with such a request is served from
\* the entry the first one stored: no cache changes and the same list comes
\* back
C13_NormalisedRequestsShareEntry ==
    [][\A op \in {"products", "users", "orders"} :
          (last.op = op /\ CallOf(op) /\ Normal(last.req) = Normal(last'.req))
          => /\ KeyOf(op, Normal(last.req)) = KeyOf(op, Normal(last'.req))
             /\ <<ucache', pcache', ocache'>> = <<ucache, pcache, ocache>>
             /\ last'.ret = last.ret]_vars

\* C13 happens: a products list with limit 101 and offset -1 followed one with
\* limit 100 and offset 0, and the cache holds one entry
C13_Witness ==
    /\ last.op = "products"
    /\ last.before.op = "products"
    /\ last.before.req.limit = 100 /\ last.before.req.offset = 0
    /\ last.req.limit = 101 /\ last.req.offset = -1
    /\ last.ret = last.before.ret
    /\ Cardinality(DOMAIN pcache) = 1

\* C14: the bytes handed to the digest tell normalised requests apart: two
\* requests that differ in a field once normalised get different keys
C14_KeyIsInjective ==
    last.op = "keys"
      => (Normal(last.req.a) # Normal(last.req.b) => last.ret[1] # last.ret[2])

\* C15: orderStorage.CreateOrder is atomic.  Whatever the step of the
\* transaction the database fails at, and whether the call returns nil or an
\* error, the order tables afterwards hold either nothing of the order or its
\* row with every one of its items; a call that returned nil left the latter.
C15_CreateOrderIsAtomic ==
    [][(CallOf("storeOrder"))
          => LET o == last'.req.order
                 whole == Append(orders, [userId |-> o.userId, status |-> o.status,
                                          items |-> o.items])
             IN  /\ orders' = orders \/ orders' = whole
                 /\ last'.err = Ok => orders' = whole]_vars

\* a call with two items failed at the INSERT of the second one, after the
\* order row and the first item had been inserted, and left no row
C15_Witness ==
    /\ last.op = "storeOrder" /\ last.err = ErrDatabase
    /\ Len(last.req.order.items) = 2 /\ last.req.failAt = 4
    /\ orders = <<>>

\* C16: the items of an order are immutable.  The order createOrder persists
\* has one item per line of the request, with the line's product id and
\* quantity and the description and tags the product had when the call was
\* made; no later updateProduct, createOrder, cancelOrder or updateOrder
\* changes an item of a persisted order; and every order read back carries
\* the items persisted for it.
C16_ItemsAreImmutable ==
    [][/\ \A id \in DOMAIN orders : orders'[id].items = orders[id].items
       /\ (CallOf("createOrder") /\ last'.err = Ok)
             => /\ Len(orders') = Len(orders) + 1
                /\ orders'[Len(orders')].items =
                      [i \in DOMAIN last'.req.items |->
                         [productId |-> last'.req.items[i].productId,
                          quantity |-> last'.req.items[i].quantity,
                          snapshot |->
                            [desc |-> products[last'.req.items[i].productId].desc,
                             tags |-> products[last'.req.items[i].productId].tags]]]
       /\ CallOf("orders")
             => \A i \in DOMAIN last'.ret :
                   last'.ret[i].items = orders[last'.ret[i].id].items]_vars

\* an order of product 1 is read back after it was cancelled and after the
\* product was given another description and other tags
C16_Witness ==
    /\ last.op = "orders" /\ Len(last.ret) = 1
    /\ last.ret[1].status = OrderStatusCancelled
    /\ last.ret[1].items[1].productId = 1
    /\ last.ret[1].items[1].snapshot = [desc |-> InitDesc(1), tags |-> InitTags(1)]
    /\ products[1].desc = <<"z">> /\ products[1].tags = << <<"t">> >>

\* C17: Product.ReserveQuantity(q) returns InvalidQuantity when q <= 0 and
\* InsufficientStock when q exceeds the product's quantity, and leaves the
\* product as it was in both cases; otherwise it returns nil and lowers the
\* quantity by exactly q.
C17_ReserveQuantity ==
    agg.op = "ReserveQuantity"
      => /\ agg.arg <= 0
              => agg.err = ErrInvalidQuantity /\ agg.product = agg.before.product
         /\ (agg.arg > 0 /\ agg.arg > agg.before.product.q)
              => agg.err = ErrInsufficientStock /\ agg.product = agg.before.product
         /\ (agg.arg > 0 /\ agg.arg <= agg.before.product.q)
              => /\ agg.err = Ok
                 /\ agg.product =
                      [agg.before.product EXCEPT !.q = agg.before.product.q - agg.arg]

\* two units were asked of a product that had one
C17_Witness ==
    /\ agg.op = "ReserveQuantity" /\ agg.arg = 2 /\ agg.before.product.q = 1
    /\ agg.err = ErrInsufficientStock /\ agg.product.q = 1

\* C18: for 0 < q <= quantity, ReserveQuantity(q) succeeds and a
\* RestoreQuantity(q) that follows it succeeds and puts the quantity back to
\* what it was before the reservation; RestoreQuantity(q) with q <= 0 returns
\* InvalidQuantity and changes nothing.
C18_ReserveThenRestore ==
    [][/\ (agg'.op = "ReserveQuantity" /\ agg' # agg
            /\ 0 < agg'.arg /\ agg'.arg <= agg.product.q)
             => agg'.err = Ok
       /\ (agg.op = "ReserveQuantity" /\ agg.err = Ok
            /\ agg'.op = "RestoreQuantity" /\ agg'.arg = agg.arg)
             => /\ agg'.err = Ok
                /\ agg'.product = agg.before.product
       /\ (agg'.op = "RestoreQuantity" /\ agg' # agg /\ agg'.arg <= 0)
             => /\ agg'.err = ErrInvalidQuantity
                /\ agg'.product = agg.product]_vars

\* two of three units were reserved and then restored
C18_Witness ==
    /\ agg.op = "RestoreQuantity" /\ agg.arg = 2 /\ agg.err = Ok
    /\ agg.before.op = "ReserveQuantity" /\ agg.before.arg = 2
    /\ agg.before.err = Ok /\ agg.before.product.q = 1
    /\ agg.product.q = 3

\* C19: createOrder validates before it mutates, in a fixed order.  A
\* malformed request (no user id, no line, a line with no product id or with
\* a quantity <= 0) fails with OrderValidation whatever the store holds; a
\* well-formed request of a user that does not exist fails with UserNotFound
\* whatever the state of its products.  In both cases the product rows and the
\* orders are left as they were.
C19_ValidatesBeforeMutating ==
    [][CallOf("createOrder")
         => /\ ~WellFormed(last'.req)
                 => /\ last'.err = ErrOrderValidation
                    /\ products' = products /\ orders' = orders
            /\ (WellFormed(last'.req) /\ last'.req.userId \notin users)
                 => /\ last'.err = ErrUserNotFound
                    /\ products' = products /\ orders' = orders]_vars

\* a user that does not exist asked for a product that does not exist
C19_Witness ==
    /\ last.op = "createOrder" /\ last.err = ErrUserNotFound
    /\ last.req.userId = 2 /\ last.req.items[1].productId = MaxProducts + 1
    /\ orders = <<>> /\ Quantities(products) = last.pre

\* C20: a well-formed createOrder of a user that exists fails with
\* ProductNotFound if and only if at least one product id of the request is
\* absent from the products, however many product ids and lines the request
\* has.
C20_ProductNotFoundIffAbsent ==
    [][(CallOf("createOrder") /\ WellFormed(last'.req) /\ last'.req.userId \in users)
         => (last'.err = ErrProductNotFound
               <=> \E i \in DOMAIN last'.req.items :
                      last'.req.items[i].productId \notin DOMAIN products)]_vars

\* C21: updateOrder(id, s) on an order that exists, with s one of pending,
\* confirmed, cancelled and completed, sets the persisted status of that order
\* to s whatever its status was, returns the order with status s, and changes
\* no product.
C21_UpdateOrderSetsStatus ==
    [][(CallOf("updateOrder") /\ last'.id \in DOMAIN orders /\ last'.status \in Statuses)
         => /\ last'.err = Ok
            /\ orders' = [orders EXCEPT ![last'.id].status = last'.status]
            /\ Len(last'.ret) = 1
            /\ last'.ret[1].id = last'.id
            /\ last'.ret[1].status = last'.status
            /\ last'.ret[1].items = orders[last'.id].items
            /\ products' = products]_vars

\* a completed order was set back to pending
C21_Witness ==
    /\ last.op = "updateOrder" /\ last.err = Ok /\ last.id = 1
    /\ last.status = OrderStatusPending /\ orders[1].status = OrderStatusPending
    /\ last.before.op = "updateOrder" /\ Len(last.before.ret) = 1
    /\ last.before.ret[1].id = 1
    /\ last.before.ret[1].status = OrderStatusCompleted

\* C22: updateOrder fails with OrderValidation when the id is nil or the
\* status is not one of the four known values, and with OrderNotFound when
\* the request is valid and no order has the id; a failing call changes the
\* status of no order.
C22_UpdateOrderFailures ==
    [][CallOf("updateOrder")
         => /\ (last'.id = Nil \/ last'.status \notin Statuses)
                 => last'.err = ErrOrderValidation
            /\ (last'.id # Nil /\ last'.status \in Statuses
                 /\ last'.id \notin DOMAIN orders)
                 => last'.err = ErrOrderNotFound
            /\ last'.err # Ok => orders' = orders /\ last'.ret = NoOrder]_vars

\* an order exists and a status that is not known was asked for it
C22_Witness ==
    /\ last.op = "updateOrder" /\ last.id = 1 /\ last.status = "shipped"
    /\ last.err = ErrOrderValidation
    /\ Len(orders) >= 1 /\ orders[1].status = OrderStatusConfirmed

\* C23: a successful POST /api/v1/orders/{order_id}/cancel on a pending or
\* confirmed order leaves the order cancelled and every product's persisted
\* quantity raised by the quantity the order holds of it.
C23_PostCancelRestores ==
    [][(CallOf("POST cancel") /\ last'.err = Ok /\ last'.id \in DOMAIN orders
          /\ orders[last'.id].status \in {OrderStatusPending, OrderStatusConfirmed})
         => /\ orders'[last'.id].status = OrderStatusCancelled
            /\ \A pid \in DOMAIN products :
                 products'[pid].q
                   = products[pid].q + LineSum(orders[last'.id].items, pid)]_vars

\* the string is empty or made of spaces
Blank(str) == \A i \in DOMAIN str : str[i] = " "

\* C24: registerUser with an age below 18, a password of fewer than 8
\* characters or a blank first or last name fails with UserValidation without
\* calling the storage (no row is added and the cache of user lists is not
\* cleared); and the user of every INSERT has an age of at least 18 and a
\* non-empty password hash and salt.
C24_RegisterUserValidates ==
    [][CallOf("registerUser")
         => /\ (\/ last'.req.age < 18
                 \/ Len(last'.req.password) < 8
                 \/ Blank(last'.req.firstName)
                 \/ Blank(last'.req.lastName))
                 => /\ last'.err = ErrUserValidation
                    /\ users' = users
                    /\ ucache' = ucache
            /\ users' # users
                 => /\ Len(last'.ret) = 1
                    /\ last'.ret[1].age >= 18
                    /\ last'.ret[1].hash # <<>>
                    /\ last'.ret[1].salt # <<>>]_vars

\* a minor was refused while the cache held a list of users
C24_Witness ==
    /\ last.op = "registerUser" /\ last.err = ErrUserValidation
    /\ last.req.age = 17 /\ Len(last.req.password) = 8
    /\ last.req.firstName = <<"A">> /\ last.req.lastName = <<"B", " ">>
    /\ ucache # EmptyCache /\ Cardinality(users) = 2

\* C25: Validate on a list request maps a limit <= 0 to 10, a limit > 100 to
\* 100 and an offset < 0 to 0, and leaves every other field and every value
\* in range as it was; the limit it leaves is in 1..100 and the offset is not
\* negative; and a second Validate changes nothing.
C25_ValidateNormalises ==
    last.op = "validate"
      => /\ last.ret[1] = Normal(last.req.r)
         /\ last.ret[1].limit \in 1..100
         /\ last.ret[1].offset >= 0
         /\ (last.req.r.limit \in 1..100 /\ last.req.r.offset >= 0)
              => last.ret[1] = last.req.r
         /\ Len(last.ret) = 2 => last.ret[2] = last.ret[1]

\* a request with a limit above the cap and a negative offset was validated
\* twice
C25_Witness ==
    /\ last.op = "validate" /\ Len(last.ret) = 2
    /\ last.req.r.limit = 101 /\ last.req.r.offset = -1
    /\ last.ret[2].limit = 100 /\ last.ret[2].offset = 0

\* the row has a description that is not blank, a quantity that is not
\* negative, and tags none of which is empty or starts or ends with a space
Sanitized(row) ==
    /\ ~Blank(row.desc)
    /\ row.q >= 0
    /\ \A i \in DOMAIN row.tags :
         /\ row.tags[i] # <<>>
         /\ row.tags[i][1] # " "
         /\ row.tags[i][Len(row.tags[i])] # " "

\* C26: after a successful createProduct or updateProduct the product it
\* wrote has a description that is not blank, a quantity >= 0 and sanitized
\* tags; a create or an update that fails persists nothing.
C26_PersistedProductIsValid ==
    [][/\ (CallOf("createProduct") /\ last'.err = Ok)
             => Sanitized(products'[Len(products')])
       /\ (CallOf("updateProduct") /\ last'.err = Ok)
             => Sanitized(products'[last'.id])
       /\ ((CallOf("createProduct") \/ CallOf("updateProduct")) /\ last'.err # Ok)
             => products' = products]_vars

\* the products that come before the k-th in the order ord
Before(ord, k) == {ord[j] : j \in 1..k - 1}

\* C27: createOrder persists the reserved quantities product by product,
\* outside the transaction of the order.  When the request passes every check
\* and the update of the k-th product fails, the products updated before it
\* stay lowered by the quantity asked of them and those after it are as they
\* were; when every product was updated and the insert of the order fails,
\* every product stays lowered.  In both cases no order is persisted and the
\* error is returned.
C27_NoCompensation ==
    [][(CallOf("createOrder") /\ Satisfiable(last'.req) /\ ~Shortfall(last'.req))
         => /\ last'.failUpdate > 0
                 => /\ last'.err = ErrDatabase
                    /\ last'.ret = NoOrder
                    /\ orders' = orders
                    /\ \A pid \in Before(last'.ord, last'.failUpdate) :
                         products'[pid].q
                           = products[pid].q - LineSum(last'.req.items, pid)
                    /\ \A pid \in DOMAIN products :
                         pid \notin Before(last'.ord, last'.failUpdate + 1)
                           => products'[pid] = products[pid]
            /\ (last'.failUpdate = 0 /\ last'.failAt > 0)
                 => /\ last'.err = ErrDatabase
                    /\ last'.ret = NoOrder
                    /\ orders' = orders
                    /\ \A pid \in DOMAIN products :
                         products'[pid].q
                           = products[pid].q - LineSum(last'.req.items, pid)]_vars

\* an order of products 1 and 2 failed at the update of the second: the first
\* has lost its unit, the second has not, and there is no order
C27_Witness ==
    /\ last.op = "createOrder" /\ last.err = ErrDatabase
    /\ last.failUpdate = 2 /\ last.ord = <<1, 2>>
    /\ products[1].q = last.pre[1] - 1
    /\ products[2].q = last.pre[2]
    /\ orders = <<>>

\* C28: when two concurrent cancelOrder calls on the same pending order have
\* both returned, every product has its quantity of before the calls plus the
\* quantity the order holds of it: the units are restored once.
C28_ConcurrentCancelRestoresOnce ==
    (\A self \in Procs : proc[self].pc = "done")
      => \A pid \in DOMAIN products :
            products[pid].q = last.pre[pid] + LineSum(orders[1].items, pid)

\* C29: a successful updateProduct returns the product as it is persisted
\* after its write: the quantity returned is the quantity requested, under
\* any interleaving with list calls on the products.
C29_UpdateReturnsWhatItWrote ==
    [][\A self \in Procs :
          (proc[self].pc = "wrote" /\ proc'[self].pc = "done" /\ proc'[self].err = Ok)
            => plists[proc[self].got][1].q = proc[self].reg]_vars

\* C30: cache coherence of the product lists under concurrent createOrder
\* calls: a list a call of productStorage.Products returns holds quantities
\* the store has held.  While no write has changed the rows since the start
\* the store has held one state only, so a list served from the cache must
\* show the quantities of the rows.
C30_ListShowsPersistedQuantities ==
    [][\A self \in Procs :
          (/\ proc[self].pc = "get"
           /\ proc'[self].pc = proc[self].back
           /\ Quantities(products) = last.pre)
            => \A i \in DOMAIN plists'[proc'[self].got] :
                  plists'[proc'[self].got][i].q =
                      products[plists'[proc'[self].got][i].id].q]_vars

\* C31: cancelOrder is atomic on error: when it returns an error no persisted
\* product quantity and no persisted order has changed.
C31_CancelAtomicOnError ==
    [][(CallOf("cancelOrder") /\ last'.err # Ok)
         => /\ Quantities(products') = Quantities(products)
            /\ orders' = orders]_vars

\* C32: a cache entry is not served past its TTL: a list call that returns a
\* cached result returns an entry stored at most one TTL before the call.
C32_NoEntryServedPastTtl ==
    (last.op = "users" /\ last.hit) => last.at - last.storedAt <= Ttl

\* the order names a product the store does not hold
NamesAbsentProduct(order) ==
    \E i \in DOMAIN order.items : order.items[i].productId \notin DOMAIN products

\* C33: cancelOrder on a pending or confirmed order that names a product the
\* store no longer holds skips that product: the call succeeds, every product
\* held is raised by the sum of the order's lines for it, and the order is
\* cancelled.
C33_CancelSkipsMissingProduct ==
    [][(CallOf("cancelOrder") /\ HasTarget
          /\ Target.status \in {OrderStatusPending, OrderStatusConfirmed}
          /\ NamesAbsentProduct(Target))
          => /\ last'.err = Ok
             /\ DOMAIN products' = DOMAIN products
             /\ \A pid \in DOMAIN products :
                  products'[pid].q = products[pid].q + LineSum(Target.items, pid)
             /\ orders'[last'.id].status = OrderStatusCancelled]_vars

\* C33 happens: an order of the absent product, of product 2 and of the
\* absent product again was cancelled, and the unit of product 2 came back
C33_Witness ==
    /\ last.op = "cancelOrder" /\ last.err = Ok
    /\ orders[last.id].status = OrderStatusCancelled
    /\ Len(orders[last.id].items) = 3
    /\ orders[last.id].items[1].productId = Absent
    /\ products[2].q = last.pre[2] + 1
    /\ products[1].q = last.pre[1]

\* C34: each storage owns its cache.  A create or an update of a collection
\* leaves the caches of the two other collections as they were and leaves in
\* its own cache no entry that was there before: a create leaves it empty, an
\* update leaves at most the entry its own read of the row written has
\* stored, holding the row as it is now.
C34_WriteClearsOwnCacheOnly ==
    [][/\ CallOf("createProduct")
            => pcache' = EmptyCache /\ ucache' = ucache /\ ocache' = ocache
       /\ CallOf("updateProduct")
            => /\ ucache' = ucache /\ ocache' = ocache
               /\ \A k \in DOMAIN pcache' :
                    /\ k = ProductsCacheKey(RequestValidate(
                                ProductsRequest(<<last'.id>>, 1)))
                    /\ plists'[pcache'[k]] =
                         QueryProducts(products', RequestValidate(
                                ProductsRequest(<<last'.id>>, 1)))
       /\ CallOf("createUser")
            => ucache' = EmptyCache /\ pcache' = pcache /\ ocache' = ocache
       /\ CallOf("storeOrder")
            => ocache' = EmptyCache /\ ucache' = ucache /\ pcache' = pcache
       /\ CallOf("updateOrder")
            => /\ ucache' = ucache /\ pcache' = pcache
               /\ \A k \in DOMAIN ocache' :
                    /\ k = OrdersCacheKey(RequestValidate(
                                OrdersRequest(<<last'.id>>, 1)))
                    /\ olists'[ocache'[k]] =
                         QueryOrders(orders', RequestValidate(
                                OrdersRequest(<<last'.id>>, 1)))]_vars

\* C34 happens: a product was created while the cache of the products held
\* two entries and the caches of the users and of the orders one each; the
\* first is empty and the two others hold their entry
C34_Witness ==
    /\ last.op = "createProduct" /\ last.err = Ok
    /\ last.had.products = 2 /\ last.had.users = 1 /\ last.had.orders = 1
    /\ pcache = EmptyCache
    /\ Cardinality(DOMAIN ucache) = 1
    /\ Cardinality(DOMAIN ocache) = 1

\* the items createOrder is to make of the lines of req: the product id and
\* the quantity of each line, in the order of the lines, with the description
\* and the tags of the product as persisted when the call is made
ItemsAsked(req) ==
    [i \in DOMAIN req.items |->
        [productId |-> req.items[i].productId,
         quantity |-> req.items[i].quantity,
         snapshot |-> [desc |-> products[req.items[i].productId].desc,
                       tags |-> products[req.items[i].productId].tags]]]

\* C35: a successful createOrder persists one more order, pending, of the
\* requesting user, with one item per line of the request in the order of the
\* lines, and returns that order.
C35_CreateOrderBuildsTheOrderAsked ==
    [][(CallOf("createOrder") /\ last'.err = Ok)
         => /\ Len(orders') = Len(orders) + 1
            /\ orders'[Len(orders')] =
                  [userId |-> last'.req.userId, status |-> OrderStatusPending,
                   items |-> ItemsAsked(last'.req)]
            /\ Len(last'.ret) = 1
            /\ last'.ret[1].id = Len(orders')
            /\ last'.ret[1].userId = last'.req.userId
            /\ last'.ret[1].status = OrderStatusPending
            /\ last'.ret[1].items = ItemsAsked(last'.req)]_vars

\* C35 happens: an order of product 2 then product 1 was placed after product
\* 1 was given another description, and its second item carries it
C35_Witness ==
    /\ last.op = "createOrder" /\ last.err = Ok
    /\ Len(last.req.items) = 2
    /\ last.req.items[1].productId = 2 /\ last.req.items[2].productId = 1
    /\ last.ret[1].items[1].productId = 2
    /\ last.ret[1].items[2].snapshot.desc = <<"z">>
    /\ orders[Len(orders)].items[2].snapshot.desc = <<"z">>

\* the order has no user, no item, or an item with no product, with a
\* quantity that is not positive or with a snapshot without description
InvalidOrder(o) ==
    \/ o.userId = Nil
    \/ Len(o.items) = 0
    \/ \E i \in DOMAIN o.items :
         \/ o.items[i].productId = Nil
         \/ o.items[i].quantity <= 0
         \/ o.items[i].snapshot.desc = <<>>

\* C36: orderStorage.CreateOrder rejects an invalid order with OrderValidation
\* and persists nothing of it; so every persisted order has an item, and every
\* persisted item a positive quantity and a snapshot with a description.
C36_InvalidOrderIsNotPersisted ==
    [][/\ (CallOf("storeOrder") /\ InvalidOrder(last'.req))
            => last'.err = ErrOrderValidation /\ orders' = orders
       /\ \A id \in DOMAIN orders' :
            /\ Len(orders'[id].items) >= 1
            /\ \A i \in DOMAIN orders'[id].items :
                 /\ orders'[id].items[i].quantity > 0
                 /\ orders'[id].items[i].snapshot.desc # <<>>]_vars

\* C36 happens: with an order persisted, an order whose second item has no
\* description in its snapshot was refused and nothing was added
C36_Witness ==
    /\ last.op = "storeOrder" /\ last.err = ErrOrderValidation
    /\ last.req.userId = 1 /\ Len(last.req.items) = 2
    /\ last.req.items[2].snapshot.desc = <<>>
    /\ Len(orders) = 1

\* C37: the persisted tags of a product form a set: no tag is there twice.
C37_TagsFormASet ==
    \A id \in DOMAIN products :
        \A i, j \in DOMAIN products[id].tags :
            i # j => products[id].tags[i] # products[id].tags[j]

\* the request passes UpdateProductRequest.Validate: it has an id, its
\* description if any is not blank and its quantity if any is not negative
ValidUpdate(r) ==
    /\ r.id # Nil
    /\ r.desc # None => ~Blank(r.desc[1])
    /\ r.q # None => r.q[1] >= 0

\* C38 as stated: updateProduct on an id that no product has fails with
\* ProductNotFound and leaves the products as they were.
C38_AbsentProductNotFound ==
    [][(CallOf("updateProduct") /\ last'.id \notin DOMAIN products)
         => last'.err = ErrProductNotFound /\ products' = products]_vars

\* C38, for the requests that pass validation: updateProduct with a valid
\* request on an id that no product has fails with ProductNotFound and leaves
\* the products as they were; with an invalid request it fails with
\* ProductValidation, and leaves the products as they were too.
C38_ValidUpdateOfAbsentProductNotFound ==
    [][(CallOf("updateProduct") /\ last'.id \notin DOMAIN products)
         => /\ products' = products
            /\ last'.err = IF ValidUpdate(last'.req) THEN ErrProductNotFound
                           ELSE ErrProductValidation]_vars

\* C38 happens: an update of the description, the tags and the quantity of a
\* product that is not there was refused with ProductNotFound
C38_Witness ==
    /\ last.op = "updateProduct" /\ last.err = ErrProductNotFound
    /\ last.id = MaxProducts + 2
    /\ last.req.desc = Some(<<" ", "z">>) /\ last.req.q = Some(0)
    /\ last.req.tags = << <<"t">> >>
    /\ Len(products) = MaxProducts + 1

\* C39: two normalised list requests that differ only in their offset, or
\* only in their limit, get different keys, whatever the two values, offsets
\* that differ by a multiple of 2^32 included.
C39_OffsetsAndLimitsTellKeysApart ==
    last.op = "keys"
      => ((/\ last.req.a # last.req.b
           /\ \/ [last.req.a EXCEPT !.offset = last.req.b.offset] = last.req.b
              \/ [last.req.a EXCEPT !.limit = last.req.b.limit] = last.req.b)
            => last.ret[1] # last.ret[2])

====
